---- MODULE Spec2Model ----
(***************************************************************************)
(* Character generation of communityMUD: the race and class registries     *)
(* (typeclasses/races.py, typeclasses/classes.py), the menu workflow       *)
(* (typeclasses/chargen.py) and the character entity                       *)
(* (typeclasses/characters.py).                                            *)
(*                                                                         *)
(* Python strings are sequences of one-character strings, so that strip,   *)
(* lower, capitalize, title, isalpha, int and the `in` test are computed   *)
(* character by character.                                                 *)
(***************************************************************************)
EXTENDS Integers, Sequences, FiniteSets, TLC

\* ------------------------------------------------------------------ bounds
\* Size of the object-id pool of the host's object store.
MaxObjects == 2

\* ------------------------------------------------------- string primitives
LowerLetters ==
  <<"a","b","c","d","e","f","g","h","i","j","k","l","m",
    "n","o","p","q","r","s","t","u","v","w","x","y","z">>

UpperLetters ==
  <<"A","B","C","D","E","F","G","H","I","J","K","L","M",
    "N","O","P","Q","R","S","T","U","V","W","X","Y","Z">>

Digits == <<"0","1","2","3","4","5","6","7","8","9">>

\* Python's None, kept in the same shape as a string so the two compare.
None == <<"<None>">>

EmptyStr == << >>

Range(s) == { s[i] : i \in DOMAIN s }

IndexOf(c, s) == CHOOSE i \in DOMAIN s : s[i] = c

IsLowerChar(c) == c \in Range(LowerLetters)

IsUpperChar(c) == c \in Range(UpperLetters)

IsAlphaChar(c) == IsLowerChar(c) \/ IsUpperChar(c)

IsDigitChar(c) == c \in Range(Digits)

IsSpaceChar(c) == c = " "

LowerChar(c) == IF IsUpperChar(c) THEN LowerLetters[IndexOf(c, UpperLetters)] ELSE c

UpperChar(c) == IF IsLowerChar(c) THEN UpperLetters[IndexOf(c, LowerLetters)] ELSE c

\* str.lower()
Lower(s) == [i \in DOMAIN s |-> LowerChar(s[i])]

\* str.capitalize(): first character upper-cased, the rest lower-cased
Capitalize(s) == [i \in DOMAIN s |-> IF i = 1 THEN UpperChar(s[i]) ELSE LowerChar(s[i])]

\* str.title(): a letter is upper-cased when it does not follow a letter
Title(s) ==
  [i \in DOMAIN s |->
     IF i = 1 \/ ~IsAlphaChar(s[i - 1]) THEN UpperChar(s[i]) ELSE LowerChar(s[i])]

\* str.isalpha(): non-empty and every character a letter
IsAlpha(s) == Len(s) > 0 /\ \A i \in DOMAIN s : IsAlphaChar(s[i])

RECURSIVE LStrip(_)
LStrip(s) == IF s # << >> /\ IsSpaceChar(Head(s)) THEN LStrip(Tail(s)) ELSE s

RECURSIVE RStrip(_)
RStrip(s) ==
  IF s # << >> /\ IsSpaceChar(s[Len(s)]) THEN RStrip(SubSeq(s, 1, Len(s) - 1)) ELSE s

\* str.strip()
Strip(s) == RStrip(LStrip(s))

\* c in s, for a single character c
Contains(s, c) == \E i \in DOMAIN s : s[i] = c

\* db_key__iexact
IExact(a, b) == Lower(a) = Lower(b)

\* int(): an optional sign followed by at least one digit; anything else
\* raises ValueError.
IntBody(s) == IF s # << >> /\ s[1] \in {"+", "-"} THEN Tail(s) ELSE s

IsIntLiteral(s) == IntBody(s) # << >> /\ \A i \in DOMAIN IntBody(s) : IsDigitChar(IntBody(s)[i])

RECURSIVE DigitsValue(_)
DigitsValue(d) ==
  IF d = << >> THEN 0
  ELSE 10 * DigitsValue(SubSeq(d, 1, Len(d) - 1)) + (IndexOf(d[Len(d)], Digits) - 1)

ParseInt(s) == IF s[1] = "-" THEN 0 - DigitsValue(IntBody(s)) ELSE DigitsValue(IntBody(s))

\* --------------------------------------------------------- Python values
PyTrue == <<"<True>">>

\* Truth value of a Python object in `if x` / `if not x`
Truthy(v) == v # None /\ v # EmptyStr

\* ------------------------------------------------------- string literals
S_Human == <<"H","u","m","a","n">>

S_human == <<"h","u","m","a","n">>

S_Warrior == <<"W","a","r","r","i","o","r">>

S_warrior == <<"w","a","r","r","i","o","r">>

\* ", ".join(keys)
RECURSIVE JoinComma(_)
JoinComma(keys) ==
  IF keys = << >> THEN << >>
  ELSE IF Len(keys) = 1 THEN keys[1]
  ELSE keys[1] \o <<",", " ">> \o JoinComma(Tail(keys))

\* ------------------------------------------------------------ characters
\* Character.at_object_creation: the attributes of a fresh character.  The
\* ndb fields are the transient shadow fields of the workflow; an unset ndb
\* attribute reads as None.
NewCharacter(key) ==
  [ key              |-> key,
    race             |-> None,
    char_class       |-> None,
    chargen_complete |-> FALSE,
    stats            |-> [ strength |-> 10, dexterity |-> 10, constitution |-> 10,
                           intelligence |-> 10, wisdom |-> 10, charisma |-> 10 ],
    skills           |-> {},
    scripts          |-> << >>,
    ndb_name         |-> None,
    ndb_email        |-> None,
    ndb_race         |-> None,
    ndb_class        |-> None ]

\* An object id with no object behind it.
NoObject == NewCharacter(None)

\* ------------------------------------------------------------ races.py
\* HumanRace.at_script_creation
HumanRace == [ script_key |-> "human_race", name |-> S_Human, skills |-> {} ]

get_available_races == << S_Human >>

race_map == << [ k |-> S_human, cls |-> HumanRace ] >>

\* dict.get(key) found no class (the value None, in the shape of a class)
NoClass == [ script_key |-> "", name |-> None, skills |-> {} ]

\* dict.get(key): the mapped class, or None
MapGet(map, key) ==
  IF \E i \in DOMAIN map : map[i].k = key
  THEN map[CHOOSE i \in DOMAIN map : map[i].k = key].cls
  ELSE NoClass

MapKeys(map) == [ i \in DOMAIN map |-> map[i].k ]

MapScriptKeys(map) == { map[i].cls.script_key : i \in DOMAIN map }

DeleteScripts_all(scripts, keys) == << >>

DeleteScripts_none(scripts, keys) == scripts

\* for script in character.scripts.all(): if script.key in keys: script.delete()
DeleteScripts(scripts, keys) == SelectSeq(scripts, LAMBDA k : k \notin keys)

\* The scripts of `scripts` that are no longer in `kept`
DeletedScripts(scripts, kept) == SelectSeq(scripts, LAMBDA k : k \notin Range(kept))

\* RaceScript.apply_race
RaceScript_apply_race(script, ch) == [ ch EXCEPT !.race = script.name ]

apply_race_deletes_first(ch, race_name) ==
  LET race_class == MapGet(race_map, Lower(race_name))
      kept == DeleteScripts(ch.scripts, MapScriptKeys(race_map))
      cleared == [ ch EXCEPT !.scripts = kept ]
      attached == [ ch EXCEPT !.scripts = Append(kept, race_class.script_key) ]
  IN
  IF race_class = NoClass
  THEN [ ret |-> <<"Race '">> \o race_name \o <<"' not found. Available races: ">>
                   \o JoinComma(MapKeys(race_map)),
         ch  |-> cleared,
         deleted |-> DeletedScripts(ch.scripts, kept) ]
  ELSE [ ret |-> PyTrue, ch |-> RaceScript_apply_race(race_class, attached),
         deleted |-> DeletedScripts(ch.scripts, kept) ]

\* apply_race(character, race_name): the returned value (True, or the error
\* text), the character afterwards, and the scripts script.delete() was
\* called on.
apply_race(ch, race_name) ==
  LET race_class == MapGet(race_map, Lower(race_name)) IN
  IF race_class = NoClass
  THEN [ ret |-> <<"Race '">> \o race_name \o <<"' not found. Available races: ">>
                   \o JoinComma(MapKeys(race_map)),
         ch  |-> ch,
         deleted |-> << >> ]
  ELSE LET kept == DeleteScripts(ch.scripts, MapScriptKeys(race_map))
           attached == [ ch EXCEPT !.scripts = Append(kept, race_class.script_key) ]
       IN [ ret |-> PyTrue, ch |-> RaceScript_apply_race(race_class, attached),
            deleted |-> DeletedScripts(ch.scripts, kept) ]

\* ---------------------------------------------------------- classes.py
WarriorClass_combat_only ==
  [ script_key |-> "warrior_class", name |-> S_Warrior,
    skills |-> { <<"combat", 1>> } ]

\* WarriorClass.at_script_creation
WarriorClass ==
  [ script_key |-> "warrior_class", name |-> S_Warrior,
    skills |-> { <<"combat", 1>>, <<"survival", 1>> } ]

get_available_classes == << S_Warrior >>

\* The skill names in the order the mappings list them.
SkillNames == << "combat", "survival", "stealth" >>

\* list(skills.keys())
SkillKeys(skills) == SelectSeq(SkillNames, LAMBDA n : \E p \in skills : p[1] = n)

class_map == << [ k |-> S_warrior, cls |-> WarriorClass ] >>

ClassScript_apply_class_merge(script, ch) ==
  [ ch EXCEPT !.char_class = script.name, !.skills = ch.skills \cup script.skills ]

\* ClassScript.apply_class
ClassScript_apply_class(script, ch) ==
  [ ch EXCEPT !.char_class = script.name, !.skills = script.skills ]

\* apply_class(character, class_name)
apply_class(ch, class_name) ==
  LET class_class == MapGet(class_map, Lower(class_name)) IN
  IF class_class = NoClass
  THEN [ ret |-> <<"Class '">> \o class_name \o <<"' not found. Available classes: ">>
                   \o JoinComma(MapKeys(class_map)),
         ch  |-> ch,
         deleted |-> << >> ]
  ELSE LET kept == DeleteScripts(ch.scripts, MapScriptKeys(class_map))
           attached == [ ch EXCEPT !.scripts = Append(kept, class_class.script_key) ]
       IN [ ret |-> PyTrue, ch |-> ClassScript_apply_class(class_class, attached),
            deleted |-> DeletedScripts(ch.scripts, kept) ]

\* ------------------------------------------------------------- the state
Accounts == { "acct1", "acct2" }

ObjIds == 1 .. MaxObjects

\* account.db._last_puppet = None
NoPuppet == 0

S_Ann == <<"A","n","n">>

S_Bob == <<"B","o","b">>

AccountKey(a) == IF a = "acct1" THEN S_Ann ELSE S_Bob

VARIABLES
  objects,    \* ObjectDB: object id -> character record, or NoObject
  accounts,   \* account -> [email, last_puppet]
  menu,       \* account -> the EvMenu of its session: node, threaded kwargs,
              \*            and what the node's closure captured on entry
  last,       \* the operation executed last: name, account, input, messages
  login       \* the pre-login session: where its create command stands, what
              \* it was given so far, and the accounts created

vars == << objects, accounts, menu, last, login >>

EmptyKwargs == [ email |-> None, race |-> None, char_class |-> None ]

ClosedMenu ==
  [ node |-> "closed", kwargs |-> EmptyKwargs,
    email_from_char |-> None, race_from_char |-> None ]

Msg(text, arg) == [ text |-> text, arg |-> arg ]

Exists(o) == o \in ObjIds /\ objects[o].key # None

\* caller.db._last_puppet, as an object id (NoPuppet when the attribute is
\* None)
Puppet(a) == accounts[a].last_puppet

HasPuppet(a) == Puppet(a) # NoPuppet

FilterIExact_case_sensitive(objs, name, exclude) ==
  { o \in ObjIds : objs[o].key # None /\ objs[o].key = name /\ o # exclude }

FilterIExact_no_exclude(objs, name, exclude) ==
  { o \in ObjIds : objs[o].key # None /\ IExact(objs[o].key, name) }

\* ObjectDB.objects.filter(db_key__iexact=name).exclude(id=exclude)
FilterIExact(objs, name, exclude) ==
  { o \in ObjIds : objs[o].key # None /\ IExact(objs[o].key, name) /\ o # exclude }

Init ==
  /\ objects = [ o \in ObjIds |-> NoObject ]
  /\ accounts = [ a \in Accounts |-> [ email |-> EmptyStr, last_puppet |-> NoPuppet ] ]
  /\ menu = [ a \in Accounts |-> ClosedMenu ]
  /\ last = [ op |-> "init", acct |-> "acct1", input |-> EmptyStr,
              kwargs |-> EmptyKwargs, out |-> << >> ]
  /\ login = [ pc |-> "idle", username |-> None, password |-> None,
               answer |-> None, tos_answer |-> None, created |-> {} ]

\* ------------------------------------------------------ menu node bodies
\* The part of a node function that runs when the engine enters the node:
\* the shadow fields its input handler closes over.
ShadowOf(objs, accts, a, field) ==
  IF accts[a].last_puppet # NoPuppet THEN objs[accts[a].last_puppet][field] ELSE None

EnterNode(objs, accts, a, node, kw) ==
  [ node |-> node,
    kwargs |-> kw,
    email_from_char |->
      IF node \in { "node_race", "node_class" }
      THEN ShadowOf(objs, accts, a, "ndb_email") ELSE None,
    race_from_char |->
      IF node = "node_class" THEN ShadowOf(objs, accts, a, "ndb_race") ELSE None ]

\* The threaded state the engine hands to an input handler: what it threaded
\* to the node, or nothing.
EngineKwargs(a) == { menu[a].kwargs, EmptyKwargs }

\* --------------------------------------------------- chargen.py handlers
\* What a goto-callable hands back to the engine, with the store after it:
\* goto is None (run the current node again) or the name of the next node.
Result(goto, kw, objs, accts, out) ==
  [ goto |-> goto, kwargs |-> kw, objects |-> objs, accounts |-> accts, out |-> out ]

Rejected(objs, accts, text, arg) ==
  Result("None", EmptyKwargs, objs, accts, << Msg(text, arg) >>)

\* if len(name) < 2:
NameTooShort(name) == Len(name) < 2

NameTooLong_off_by_one(name) == Len(name) > 17

\* if len(name) > 16:
NameTooLong(name) == Len(name) > 16

name_check_input_as_typed(objs, accts, a, raw_string, kwargs) ==
  LET name == Strip(raw_string)
      character == accts[a].last_puppet
      existing == FilterIExact(objs, name, character)
      capitalized == name
  IN
  IF ~Truthy(Strip(raw_string))
  THEN Rejected(objs, accts, "Please enter a name for your character.", None)
  ELSE IF NameTooShort(name)
  THEN Rejected(objs, accts, "Name must be at least 2 characters long.", None)
  ELSE IF NameTooLong(name)
  THEN Rejected(objs, accts, "Name can be up to 16 characters long.", None)
  ELSE IF ~IsAlpha(name)
  THEN Rejected(objs, accts, "Name can only contain letters (no numbers or punctuation).", None)
  ELSE IF existing # {}
  THEN Rejected(objs, accts, "The name is already taken. Please choose another name.", name)
  ELSE IF character # NoPuppet
  THEN Result("node_email", kwargs,
              [ objs EXCEPT ![character].key = capitalized,
                            ![character].ndb_name = capitalized ],
              accts, << >>)
  ELSE Result("node_email", kwargs, objs, accts, << >>)

\* node_name._check_input
name_check_input(objs, accts, a, raw_string, kwargs) ==
  LET name == Strip(raw_string)
      character == accts[a].last_puppet
      existing == FilterIExact(objs, name, character)
      capitalized == Capitalize(name)
  IN
  IF ~Truthy(Strip(raw_string))
  THEN Rejected(objs, accts, "Please enter a name for your character.", None)
  ELSE IF NameTooShort(name)
  THEN Rejected(objs, accts, "Name must be at least 2 characters long.", None)
  ELSE IF NameTooLong(name)
  THEN Rejected(objs, accts, "Name can be up to 16 characters long.", None)
  ELSE IF ~IsAlpha(name)
  THEN Rejected(objs, accts, "Name can only contain letters (no numbers or punctuation).", None)
  ELSE IF existing # {}
  THEN Rejected(objs, accts, "The name is already taken. Please choose another name.", name)
  ELSE IF character # NoPuppet
  THEN Result("node_email", kwargs,
              [ objs EXCEPT ![character].key = capitalized,
                            ![character].ndb_name = capitalized ],
              accts, << >>)
  ELSE Result("node_email", kwargs, objs, accts, << >>)

InvalidEmail_at_only(email) == ~Contains(email, "@")

InvalidEmail_neither(email) == ~Contains(email, "@") /\ ~Contains(email, ".")

\* if "@" not in email or "." not in email:
InvalidEmail(email) == ~Contains(email, "@") \/ ~Contains(email, ".")

email_check_input_skip_keeps_account(objs, accts, a, raw_string, kwargs) ==
  LET email == Strip(raw_string)
      character == accts[a].last_puppet
      saved(e) ==
        IF character # NoPuppet
        THEN [ objects |-> [ objs EXCEPT ![character].ndb_email = e ],
               accounts |-> [ accts EXCEPT ![a].email = e ] ]
        ELSE [ objects |-> objs, accounts |-> accts ]
  IN
  IF ~Truthy(Strip(raw_string))
  THEN Result("node_race", [ EmptyKwargs EXCEPT !.email = EmptyStr ],
              saved(EmptyStr).objects, accts,
              << Msg("Email skipped. You can set it later if desired.", None) >>)
  ELSE IF InvalidEmail(email)
  THEN Rejected(objs, accts,
         "That doesn't look like a valid email address. Try again or press enter to skip.",
         None)
  ELSE Result("node_race", [ EmptyKwargs EXCEPT !.email = email ],
              saved(email).objects, saved(email).accounts, << >>)

\* node_email._check_input
email_check_input(objs, accts, a, raw_string, kwargs) ==
  LET email == Strip(raw_string)
      character == accts[a].last_puppet
      saved(e) ==
        IF character # NoPuppet
        THEN [ objects |-> [ objs EXCEPT ![character].ndb_email = e ],
               accounts |-> [ accts EXCEPT ![a].email = e ] ]
        ELSE [ objects |-> objs, accounts |-> accts ]
  IN
  IF ~Truthy(Strip(raw_string))
  THEN Result("node_race", [ EmptyKwargs EXCEPT !.email = EmptyStr ],
              saved(EmptyStr).objects, saved(EmptyStr).accounts,
              << Msg("Email skipped. You can set it later if desired.", None) >>)
  ELSE IF InvalidEmail(email)
  THEN Rejected(objs, accts,
         "That doesn't look like a valid email address. Try again or press enter to skip.",
         None)
  ELSE Result("node_race", [ EmptyKwargs EXCEPT !.email = email ],
              saved(email).objects, saved(email).accounts, << >>)

NormalizeChoice_as_typed(choice) == choice

\* choice = choice.title()
NormalizeChoice(choice) == Title(choice)

\* The selection both node_race._check_input and node_class._check_input
\* make from a listing: the chosen entry, or None with the message.
Select(available, raw_string, bynumber, byname) ==
  LET choice == Strip(raw_string)
      index == ParseInt(choice) - 1
  IN
  IF ~Truthy(Strip(raw_string))
  THEN [ selected |-> None, msg |-> bynumber ]
  ELSE IF IsIntLiteral(choice)
  THEN IF 0 <= index /\ index < Len(available)
       THEN [ selected |-> available[index + 1], msg |-> "" ]
       ELSE [ selected |-> None,
              msg |-> "Invalid selection. Please enter a number from the list." ]
  ELSE IF NormalizeChoice(choice) \in Range(available)
       THEN [ selected |-> NormalizeChoice(choice), msg |-> "" ]
       ELSE [ selected |-> None, msg |-> byname ]

\* node_race._check_input; email_from_char is the closure's capture
race_check_input(objs, accts, a, raw_string, kwargs, email_from_char) ==
  LET sel == Select(get_available_races, raw_string,
                    "Please select a race by number.",
                    "Invalid race. Please select from the list.")
      character == accts[a].last_puppet
      with_race == [ kwargs EXCEPT !.race = sel.selected ]
      new_kwargs ==
        IF with_race.email = None /\ email_from_char # None
        THEN [ with_race EXCEPT !.email = email_from_char ]
        ELSE with_race
  IN
  IF sel.selected = None
  THEN Rejected(objs, accts, sel.msg, None)
  ELSE Result("node_class", new_kwargs,
              IF character # NoPuppet
              THEN [ objs EXCEPT ![character].ndb_race = sel.selected ]
              ELSE objs,
              accts, << >>)

\* node_class._check_input; email_from_char and race_from_char are the
\* closure's captures
class_check_input(objs, accts, a, raw_string, kwargs, email_from_char, race_from_char) ==
  LET sel == Select(get_available_classes, raw_string,
                    "Please select a class by number.",
                    "Invalid class. Please select from the list.")
      character == accts[a].last_puppet
      with_class == [ kwargs EXCEPT !.char_class = sel.selected ]
      with_email ==
        IF with_class.email = None /\ email_from_char # None
        THEN [ with_class EXCEPT !.email = email_from_char ]
        ELSE with_class
      new_kwargs ==
        IF with_email.race = None /\ Truthy(race_from_char)
        THEN [ with_email EXCEPT !.race = race_from_char ]
        ELSE with_email
  IN
  IF sel.selected = None
  THEN Rejected(objs, accts, sel.msg, None)
  ELSE Result("node_confirm", new_kwargs,
              IF character # NoPuppet
              THEN [ objs EXCEPT ![character].ndb_class = sel.selected ]
              ELSE objs,
              accts, << >>)

S_y == <<"y">>

S_yes == <<"y","e","s">>

S_n == <<"n">>

S_no == <<"n","o">>

confirm_check_input_yes_reprompts(objs, accts, a, raw_string, kwargs) ==
  LET choice == Lower(Strip(raw_string)) IN
  IF choice \in { S_n, S_no }
  THEN Result("node_name", EmptyKwargs, objs, accts, << Msg("Let's start over.", None) >>)
  ELSE Rejected(objs, accts, "Please enter 'y' or 'n'.", None)

confirm_check_input_case_sensitive(objs, accts, a, raw_string, kwargs) ==
  LET choice == Strip(raw_string) IN
  IF choice \in { S_y, S_yes }
  THEN Result("node_apply_character", kwargs, objs, accts, << >>)
  ELSE IF choice \in { S_n, S_no }
  THEN Result("node_name", EmptyKwargs, objs, accts, << Msg("Let's start over.", None) >>)
  ELSE Rejected(objs, accts, "Please enter 'y' or 'n'.", None)

confirm_check_input_back_to_email(objs, accts, a, raw_string, kwargs) ==
  LET choice == Lower(Strip(raw_string)) IN
  IF choice \in { S_y, S_yes }
  THEN Result("node_apply_character", kwargs, objs, accts, << >>)
  ELSE IF choice \in { S_n, S_no }
  THEN Result("node_email", EmptyKwargs, objs, accts, << Msg("Let's start over.", None) >>)
  ELSE Rejected(objs, accts, "Please enter 'y' or 'n'.", None)

confirm_check_input_keeps_state(objs, accts, a, raw_string, kwargs) ==
  LET choice == Lower(Strip(raw_string)) IN
  IF choice \in { S_y, S_yes }
  THEN Result("node_apply_character", kwargs, objs, accts, << >>)
  ELSE IF choice \in { S_n, S_no }
  THEN Result("node_name", kwargs, objs, accts, << Msg("Let's start over.", None) >>)
  ELSE Rejected(objs, accts, "Please enter 'y' or 'n'.", None)

\* node_confirm._check_input
confirm_check_input(objs, accts, a, raw_string, kwargs) ==
  LET choice == Lower(Strip(raw_string)) IN
  IF choice \in { S_y, S_yes }
  THEN Result("node_apply_character", kwargs, objs, accts, << >>)
  ELSE IF choice \in { S_n, S_no }
  THEN Result("node_name", EmptyKwargs, objs, accts, << Msg("Let's start over.", None) >>)
  ELSE Rejected(objs, accts, "Please enter 'y' or 'n'.", None)

\* kwargs.get(key, default)
KwGet(kwargs, key, default) == IF kwargs[key] = None THEN default ELSE kwargs[key]

node_apply_character_toggles_complete(objs, accts, a, kwargs) ==
  LET character == accts[a].last_puppet
      ch0 == [ objs[character] EXCEPT !.key = Capitalize(objs[character].key) ]
      email == KwGet(kwargs, "email", EmptyStr)
      accts1 == IF Truthy(email) THEN [ accts EXCEPT ![a].email = email ] ELSE accts
      out1 == IF Truthy(email) THEN << Msg("Email set to", email) >> ELSE << >>
      race == KwGet(kwargs, "race", S_Human)
      r == apply_race(ch0, race)
      ch1 == IF ~Truthy(r.ret) THEN [ r.ch EXCEPT !.race = S_Human ] ELSE r.ch
      out2 == IF ~Truthy(r.ret)
              THEN Append(out1, Msg("Warning: Failed to apply race. Using default.", race))
              ELSE out1
      char_class == KwGet(kwargs, "char_class", S_Warrior)
      c == apply_class(ch1, char_class)
      ch2 == IF ~Truthy(c.ret) THEN [ c.ch EXCEPT !.char_class = S_Warrior ] ELSE c.ch
      out3 == IF ~Truthy(c.ret)
              THEN Append(out2, Msg("Warning: Failed to apply class. Using default.", char_class))
              ELSE out2
      ch3 == [ ch2 EXCEPT !.chargen_complete = ~ch2.chargen_complete ]
  IN
  IF character = NoPuppet
  THEN [ objects |-> objs, accounts |-> accts,
         out |-> << Msg("Error: Character not found. Please contact an administrator.", None) >> ]
  ELSE [ objects |-> [ objs EXCEPT ![character] = ch3 ], accounts |-> accts1,
         out |-> Append(out3, Msg("Character Creation Complete!", ch3.key)) ]

node_apply_character_saves_email_first(objs, accts, a, kwargs) ==
  LET character == accts[a].last_puppet
      ch0 == [ objs[character] EXCEPT !.key = Capitalize(objs[character].key) ]
      email == KwGet(kwargs, "email", EmptyStr)
      accts1 == IF Truthy(email) THEN [ accts EXCEPT ![a].email = email ] ELSE accts
      out1 == IF Truthy(email) THEN << Msg("Email set to", email) >> ELSE << >>
      race == KwGet(kwargs, "race", S_Human)
      r == apply_race(ch0, race)
      ch1 == IF ~Truthy(r.ret) THEN [ r.ch EXCEPT !.race = S_Human ] ELSE r.ch
      out2 == IF ~Truthy(r.ret)
              THEN Append(out1, Msg("Warning: Failed to apply race. Using default.", race))
              ELSE out1
      char_class == KwGet(kwargs, "char_class", S_Warrior)
      c == apply_class(ch1, char_class)
      ch2 == IF ~Truthy(c.ret) THEN [ c.ch EXCEPT !.char_class = S_Warrior ] ELSE c.ch
      out3 == IF ~Truthy(c.ret)
              THEN Append(out2, Msg("Warning: Failed to apply class. Using default.", char_class))
              ELSE out2
      ch3 == [ ch2 EXCEPT !.chargen_complete = TRUE ]
  IN
  IF character = NoPuppet
  THEN [ objects |-> objs, accounts |-> accts1,
         out |-> << Msg("Error: Character not found. Please contact an administrator.", None) >> ]
  ELSE [ objects |-> [ objs EXCEPT ![character] = ch3 ], accounts |-> accts1,
         out |-> Append(out3, Msg("Character Creation Complete!", ch3.key)) ]

\* node_apply_character: the store after the terminal step and the messages
\* it sent
node_apply_character(objs, accts, a, kwargs) ==
  LET character == accts[a].last_puppet
      ch0 == [ objs[character] EXCEPT !.key = Capitalize(objs[character].key) ]
      email == KwGet(kwargs, "email", EmptyStr)
      accts1 == IF Truthy(email) THEN [ accts EXCEPT ![a].email = email ] ELSE accts
      out1 == IF Truthy(email) THEN << Msg("Email set to", email) >> ELSE << >>
      race == KwGet(kwargs, "race", S_Human)
      r == apply_race(ch0, race)
      ch1 == IF ~Truthy(r.ret) THEN [ r.ch EXCEPT !.race = S_Human ] ELSE r.ch
      out2 == IF ~Truthy(r.ret)
              THEN Append(out1, Msg("Warning: Failed to apply race. Using default.", race))
              ELSE out1
      char_class == KwGet(kwargs, "char_class", S_Warrior)
      c == apply_class(ch1, char_class)
      ch2 == IF ~Truthy(c.ret) THEN [ c.ch EXCEPT !.char_class = S_Warrior ] ELSE c.ch
      out3 == IF ~Truthy(c.ret)
              THEN Append(out2, Msg("Warning: Failed to apply class. Using default.", char_class))
              ELSE out2
      ch3 == [ ch2 EXCEPT !.chargen_complete = TRUE ]
  IN
  IF character = NoPuppet
  THEN [ objects |-> objs, accounts |-> accts,
         out |-> << Msg("Error: Character not found. Please contact an administrator.", None) >> ]
  ELSE [ objects |-> [ objs EXCEPT ![character] = ch3 ], accounts |-> accts1,
         out |-> Append(out3, Msg("Character Creation Complete!", ch3.key)) ]

\* ------------------------------------------------------------- inputs
S_ann == <<"a","n","n">>

S_ANN == <<"A","N","N">>

S_bob == <<"b","o","b">>

S_BOB == <<"B","O","B">>

S_bo == <<"b","o">>

S_BO_padded == <<" ","B","O"," ">>

S_x == <<"x">>

S_x_padded == <<" ","x"," ">>

S_r2 == <<"r","2">>

S_sixteen == <<"a","b","c","d","e","f","g","h","i","j","k","l","m","n","o","p">>

S_seventeen == S_sixteen \o <<"q">>

S_blank == <<" ">>

NameInputs ==
  { EmptyStr, S_blank, S_x, S_x_padded, S_r2, S_seventeen,
    S_ann, S_ANN, S_bob, S_BOB, S_bo, S_BO_padded, S_sixteen }

S_a_at_b == <<"a","@","b">>

S_ab == <<"a","b">>

S_a_dot_b == <<"a",".","b">>

S_a_at_b_dot_c == <<"a","@","b",".","c">>

S_dot_at_padded == <<" ",".","@"," ">>

EmailInputs ==
  { EmptyStr, S_blank, S_a_at_b, S_ab, S_a_dot_b, S_a_at_b_dot_c, S_dot_at_padded }

S_1 == <<"1">>

S_1_padded == <<" ","1"," ">>

S_0 == <<"0">>

S_minus1 == <<"-","1">>

S_2 == <<"2">>

S_HUMAN == <<"H","U","M","A","N">>

S_hUmAn == <<"h","U","m","A","n">>

S_WARRIOR == <<"W","A","R","R","I","O","R">>

S_Elf == <<"E","l","f">>

S_Mage == <<"M","a","g","e">>

SelectInputs ==
  { EmptyStr, S_blank, S_1, S_1_padded, S_0, S_minus1, S_2,
    S_human, S_HUMAN, S_Human, S_hUmAn, S_warrior, S_WARRIOR, S_Warrior, S_Elf }

S_Y == <<"Y">>

S_YES_padded == <<" ","Y","E","S"," ">>

S_NO == <<"N","O">>

S_ye == <<"y","e">>

ConfirmInputs == { S_y, S_Y, S_yes, S_YES_padded, S_n, S_no, S_NO, EmptyStr, S_ye }

\* Threaded states a direct call of the terminal step may be given
ForcedKwargs ==
  [ email : { None, S_a_at_b_dot_c },
    race : { None, S_human, S_Elf },
    char_class : { S_Warrior, S_Mage } ]

\* ------------------------------------------------------------ the engine
ActiveNodes ==
  { "node_welcome", "node_name", "node_email", "node_race", "node_class", "node_confirm" }

\* The engine acts on what a goto-callable returned: it runs the current
\* node again (None), runs the terminal node and closes the menu, or enters
\* the named node.
Dispatch(a, op, raw, hk, res) ==
  LET applied == node_apply_character(res.objects, res.accounts, a, res.kwargs) IN
  /\ UNCHANGED login
  /\ IF res.goto = "None"
     THEN /\ objects' = res.objects
          /\ accounts' = res.accounts
          /\ menu' = [ menu EXCEPT ![a] =
                         EnterNode(res.objects, res.accounts, a, menu[a].node, menu[a].kwargs) ]
          /\ last' = [ op |-> op, acct |-> a, input |-> raw, kwargs |-> hk, out |-> res.out ]
     ELSE IF res.goto = "node_apply_character"
     THEN /\ objects' = applied.objects
          /\ accounts' = applied.accounts
          /\ menu' = [ menu EXCEPT ![a] =
                         [ ClosedMenu EXCEPT !.node = "node_apply_character",
                                             !.kwargs = res.kwargs ] ]
          /\ last' = [ op |-> op, acct |-> a, input |-> raw, kwargs |-> hk,
                       out |-> res.out \o applied.out ]
     ELSE /\ objects' = res.objects
          /\ accounts' = res.accounts
          /\ menu' = [ menu EXCEPT ![a] =
                         EnterNode(res.objects, res.accounts, a, res.goto, res.kwargs) ]
          /\ last' = [ op |-> op, acct |-> a, input |-> raw, kwargs |-> hk, out |-> res.out ]

\* ------------------------------------------------------------- actions
create_default_character_shared_object(objs, accts, a, o) ==
  [ objects |-> [ objs EXCEPT ![1] = NewCharacter(AccountKey(a)) ],
    accounts |-> [ accts EXCEPT ![a].last_puppet = 1 ] ]

\* create_default_character: the store with the new character linked to the
\* account under object id o
create_default_character(objs, accts, a, o) ==
  [ objects |-> [ objs EXCEPT ![o] = NewCharacter(AccountKey(a)) ],
    accounts |-> [ accts EXCEPT ![a].last_puppet = o ] ]

AlreadyCompleted_never(ch) == FALSE

\* if character.db.chargen_complete:
AlreadyCompleted(ch) == ch.chargen_complete

FreeIds == { o \in ObjIds : ~Exists(o) }

\* start_chargen(account) on a given store; created tells whether
\* create_object succeeded
start_chargen_on(objs, accts, mn, a, created) ==
  LET free == { f \in ObjIds : objs[f].key = None }
      o == CHOOSE f \in free : \A g \in free : f <= g
      had == accts[a].last_puppet # NoPuppet
      made == IF had
              THEN [ objects |-> objs, accounts |-> accts ]
              ELSE create_default_character(objs, accts, a, o)
      character == made.accounts[a].last_puppet
      same(out) == [ objects |-> objs, accounts |-> accts, menu |-> mn, out |-> out ]
  IN
  IF ~had /\ ~created
  THEN same(<< Msg("Error creating character", None) >>)
  ELSE IF AlreadyCompleted(made.objects[character])
  THEN same(<< Msg("Character generation already completed.", None) >>)
  ELSE [ objects |-> made.objects,
         accounts |-> made.accounts,
         menu |-> [ mn EXCEPT ![a] =
                      EnterNode(made.objects, made.accounts, a, "node_welcome", EmptyKwargs) ],
         out |-> << >> ]

\* start_chargen(account)
start_chargen(a, created) ==
  LET r == start_chargen_on(objects, accounts, menu, a, created) IN
  /\ ~HasPuppet(a) /\ created => FreeIds # {}
  /\ UNCHANGED login
  /\ objects' = r.objects
  /\ accounts' = r.accounts
  /\ menu' = r.menu
  /\ last' = [ op |-> "start_chargen", acct |-> a, input |-> EmptyStr,
               kwargs |-> EmptyKwargs, out |-> r.out ]

\* node_welcome: any input goes to node_name
WelcomeInput(a, raw) ==
  /\ menu[a].node = "node_welcome"
  /\ Dispatch(a, "node_welcome", raw, EmptyKwargs,
              Result("node_name", EmptyKwargs, objects, accounts, << >>))

NameInput(a, raw, hk) ==
  /\ menu[a].node = "node_name"
  /\ Dispatch(a, "node_name", raw, hk, name_check_input(objects, accounts, a, raw, hk))

EmailInput(a, raw, hk) ==
  /\ menu[a].node = "node_email"
  /\ Dispatch(a, "node_email", raw, hk, email_check_input(objects, accounts, a, raw, hk))

RaceInput(a, raw, hk) ==
  /\ menu[a].node = "node_race"
  /\ Dispatch(a, "node_race", raw, hk,
              race_check_input(objects, accounts, a, raw, hk, menu[a].email_from_char))

ClassInput(a, raw, hk) ==
  /\ menu[a].node = "node_class"
  /\ Dispatch(a, "node_class", raw, hk,
              class_check_input(objects, accounts, a, raw, hk,
                                menu[a].email_from_char, menu[a].race_from_char))

ConfirmInput(a, raw, hk) ==
  /\ menu[a].node = "node_confirm"
  /\ Dispatch(a, "node_confirm", raw, hk, confirm_check_input(objects, accounts, a, raw, hk))

\* node_apply_character called directly with a threaded state of the
\* caller's choosing
ForceApply(a, kw) ==
  LET applied == node_apply_character(objects, accounts, a, kw) IN
  /\ objects' = applied.objects
  /\ accounts' = applied.accounts
  /\ UNCHANGED << menu, login >>
  /\ last' = [ op |-> "force_apply", acct |-> a, input |-> EmptyStr, kwargs |-> kw,
               out |-> applied.out ]

\* auto_quit=True: the session leaves the menu
QuitMenu(a) ==
  /\ menu[a].node \in ActiveNodes
  /\ menu' = [ menu EXCEPT ![a] = ClosedMenu ]
  /\ UNCHANGED << objects, accounts, login >>
  /\ last' = [ op |-> "quit", acct |-> a, input |-> EmptyStr, kwargs |-> EmptyKwargs,
               out |-> << >> ]

\* The host deletes the account's character object
DeleteCharacter(a) ==
  /\ HasPuppet(a)
  /\ objects' = [ objects EXCEPT ![Puppet(a)] = NoObject ]
  /\ accounts' = [ accounts EXCEPT ![a].last_puppet = NoPuppet ]
  /\ UNCHANGED << menu, login >>
  /\ last' = [ op |-> "delete_character", acct |-> a, input |-> EmptyStr,
               kwargs |-> EmptyKwargs, out |-> << >> ]

\* apply_race(character, race_name) called on the account's character; the
\* returned value is recorded as the operation's output
ApplyRace(a, race_name) ==
  LET r == apply_race(objects[Puppet(a)], race_name) IN
  /\ HasPuppet(a)
  /\ objects' = [ objects EXCEPT ![Puppet(a)] = r.ch ]
  /\ UNCHANGED << accounts, menu, login >>
  /\ last' = [ op |-> "apply_race", acct |-> a, input |-> race_name,
               kwargs |-> EmptyKwargs,
               out |-> << Msg("returned", r.ret), Msg("deleted", r.deleted) >> ]

\* apply_class(character, class_name) called on the account's character
ApplyClass(a, class_name) ==
  LET c == apply_class(objects[Puppet(a)], class_name) IN
  /\ HasPuppet(a)
  /\ objects' = [ objects EXCEPT ![Puppet(a)] = c.ch ]
  /\ UNCHANGED << accounts, menu, login >>
  /\ last' = [ op |-> "apply_class", acct |-> a, input |-> class_name,
               kwargs |-> EmptyKwargs,
               out |-> << Msg("returned", c.ret), Msg("deleted", c.deleted),
                          Msg("skills before", SkillKeys(objects[Puppet(a)].skills)) >> ]

\* The character learns a skill outside generation
GainSkill(a, skill) ==
  /\ HasPuppet(a)
  /\ skill \notin objects[Puppet(a)].skills
  /\ objects' = [ objects EXCEPT ![Puppet(a)].skills = @ \cup { skill } ]
  /\ UNCHANGED << accounts, menu, login >>
  /\ last' = [ op |-> "gain_skill", acct |-> a, input |-> EmptyStr,
               kwargs |-> EmptyKwargs, out |-> << >> ]

GainedSkills == { << "stealth", 1 >> }

\* Some other part of the game attaches a script of its own to the character
AttachScript(a, script_key) ==
  /\ HasPuppet(a)
  /\ script_key \notin Range(objects[Puppet(a)].scripts)
  /\ objects' = [ objects EXCEPT ![Puppet(a)].scripts = Append(@, script_key) ]
  /\ UNCHANGED << accounts, menu, login >>
  /\ last' = [ op |-> "attach_script", acct |-> a, input |-> EmptyStr,
               kwargs |-> EmptyKwargs, out |-> << >> ]

UnrelatedScripts == { "quest_timer" }

\* --------------------------------------------------- commands/character.py
S_Unknown == <<"U","n","k","n","o","w","n">>

\* value or "Unknown"
OrUnknown(v) == IF Truthy(v) THEN v ELSE S_Unknown

\* f"{n}" for a natural number
RECURSIVE Str(_)
Str(n) == IF n < 10 THEN << Digits[n + 1] >> ELSE Str(n \div 10) \o << Digits[(n % 10) + 1] >>

\* [f"{skill}: {value}" for skill, value in skills.items()], joined by ", "
RECURSIVE SkillList(_, _)
SkillList(names, skills) ==
  IF names = << >> THEN << >>
  ELSE LET here == { p \in skills : p[1] = Head(names) }
           rest == SkillList(Tail(names), skills)
           item == LET p == CHOOSE q \in here : TRUE IN << p[1], ": " >> \o Str(p[2])
       IN IF here = {} THEN rest
          ELSE IF rest = << >> THEN item
          ELSE item \o << ", " >> \o rest

\* CmdScore.func: skill_text
SkillText(skills) ==
  IF skills # {} THEN << "Skills: " >> \o SkillList(SkillNames, skills)
  ELSE << "Skills: None" >>

\* CmdScore.func: the six stat lines
StatsText(stats) ==
  Str(stats.strength) \o <<",">> \o Str(stats.dexterity) \o <<",">>
    \o Str(stats.constitution) \o <<",">> \o Str(stats.intelligence) \o <<",">>
    \o Str(stats.wisdom) \o <<",">> \o Str(stats.charisma)

ScoreGuard_none(ch) == FALSE

\* if not caller.db.chargen_complete:
ScoreGuard(ch) == ~ch.chargen_complete

\* CmdScore.func: the text sent to the caller
score_text(ch) ==
  IF ScoreGuard(ch)
  THEN << Msg("You have not completed character creation. Type 'look' to continue.", None) >>
  ELSE << Msg("sheet name", ch.key),
          Msg("sheet race", OrUnknown(ch.race)),
          Msg("sheet class", OrUnknown(ch.char_class)),
          Msg("sheet stats", StatsText(ch.stats)),
          Msg("sheet skills", SkillText(ch.skills)) >>

\* RaceScript / ClassScript db.desc by script key
ScriptDesc(script_key) ==
  IF script_key = "human_race"
  THEN << "Humans are the most common race, known for their adaptability and versatility." >>
  ELSE IF script_key = "warrior_class"
  THEN << "Warriors are skilled fighters who rely on strength and weapon mastery in combat." >>
  ELSE << "No description available." >>

\* script.key.endswith(suffix), over the script keys the store can hold
KeyEndsWith(script_key, suffix) ==
  \/ suffix = "_race" /\ script_key \in { "human_race" }
  \/ suffix = "_class" /\ script_key \in { "warrior_class" }

\* The description of the last attached script whose key has the suffix
RECURSIVE DescOf(_, _)
DescOf(scripts, suffix) ==
  IF scripts = << >> THEN << "No description available" >>
  ELSE IF KeyEndsWith(scripts[Len(scripts)], suffix) THEN ScriptDesc(scripts[Len(scripts)])
  ELSE DescOf(SubSeq(scripts, 1, Len(scripts) - 1), suffix)

S_Yes == <<"Y","e","s">>

S_No == <<"N","o">>

\* CmdCharacterInfo.func: the text sent to the caller
charinfo_text(ch, account_name, email) ==
  << Msg("info name", ch.key),
     Msg("info account", account_name),
     Msg("info email", email),
     Msg("info race", OrUnknown(ch.race)),
     Msg("info class", OrUnknown(ch.char_class)),
     Msg("info chargen", IF ch.chargen_complete THEN S_Yes ELSE S_No),
     Msg("info race description", DescOf(ch.scripts, "_race")),
     Msg("info class description", DescOf(ch.scripts, "_class")) >>

\* score, typed by the account's character
CmdScore(a) ==
  /\ HasPuppet(a)
  /\ UNCHANGED << objects, accounts, menu, login >>
  /\ last' = [ op |-> "score", acct |-> a, input |-> EmptyStr, kwargs |-> EmptyKwargs,
               out |-> score_text(objects[Puppet(a)]) ]

\* charinfo, typed by the account's character
CmdCharacterInfo(a) ==
  /\ HasPuppet(a)
  /\ UNCHANGED << objects, accounts, menu, login >>
  /\ last' = [ op |-> "charinfo", acct |-> a, input |-> EmptyStr, kwargs |-> EmptyKwargs,
               out |-> charinfo_text(objects[Puppet(a)], AccountKey(a), accounts[a].email) ]

\* ----------------------------------------------------- commands/account.py
\* self.lhs: the arguments up to the first "=", stripped
Lhs(args) ==
  IF "=" \in Range(args)
  THEN Strip(SubSeq(args, 1, (CHOOSE i \in DOMAIN args :
                                 args[i] = "=" /\ \A j \in 1 .. (i - 1) : args[j] # "=") - 1))
  ELSE Strip(args)

\* What self.account.create_character can return
CreateOutcomes == { "created", "created_with_errors", "failed" }

\* self.account.create_character(key=key, ...): on success the host stores
\* the new character and makes it the account's _last_puppet
account_create_character(objs, accts, a, key, outcome) ==
  LET free == { f \in ObjIds : objs[f].key = None }
      o == CHOOSE f \in free : \A g \in free : f <= g
      errors == IF outcome = "created" THEN None ELSE << "create_character errors" >>
  IN IF outcome = "failed"
     THEN [ new_character |-> NoPuppet, errors |-> errors,
            objects |-> objs, accounts |-> accts ]
     ELSE [ new_character |-> o, errors |-> errors,
            objects |-> [ objs EXCEPT ![o] = NewCharacter(key) ],
            accounts |-> [ accts EXCEPT ![a].last_puppet = o ] ]

NoArgs_never(args) == FALSE

\* if not self.args:
NoArgs(args) == ~Truthy(args)

\* if not new_character: return
StartsWorkflow(new_character) == new_character # NoPuppet

\* CmdCharCreate.func
CmdCharCreate(a, args, outcome) ==
  LET key == Capitalize(Strip(Lhs(args)))
      made == account_create_character(objects, accounts, a, key, outcome)
      out1 == IF Truthy(made.errors) THEN << Msg("errors", made.errors) >> ELSE << >>
      out2 == Append(out1, Msg("Created new character. Starting character generation...",
                               made.objects[made.new_character].key))
      started == start_chargen_on(made.objects, made.accounts, menu, a, TRUE)
      rec(out) == [ op |-> "charcreate", acct |-> a, input |-> args,
                    kwargs |-> EmptyKwargs, out |-> out ]
  IN
  /\ (~NoArgs(args) /\ outcome # "failed") => FreeIds # {}
  /\ UNCHANGED login
  /\ IF NoArgs(args)
     THEN /\ UNCHANGED << objects, accounts, menu >>
          /\ last' = rec(<< Msg("Usage: charcreate <charname> [= description]", None) >>)
     ELSE IF ~StartsWorkflow(made.new_character)
     THEN /\ objects' = made.objects
          /\ accounts' = made.accounts
          /\ UNCHANGED menu
          /\ last' = rec(out1)
     ELSE /\ objects' = started.objects
          /\ accounts' = started.accounts
          /\ menu' = started.menu
          /\ last' = rec(out2 \o started.out)

S_cara == <<"c","a","r","a">>

S_dan_eq == <<"d","a","n"," ","="," ","x">>

CharCreateArgs == { EmptyStr, S_cara, S_dan_eq }

\* -------------------------------------------------- commands/unloggedin.py
\* re.split(r"\"", args): the pieces of args between double quotes
RECURSIVE SplitQuotes(_)
SplitQuotes(s) ==
  IF "\"" \notin Range(s) THEN << s >>
  ELSE LET i == CHOOSE k \in DOMAIN s : s[k] = "\"" /\ \A j \in 1 .. (k - 1) : s[j] # "\""
       IN << SubSeq(s, 1, i - 1) >> \o SplitQuotes(SubSeq(s, i + 1, Len(s)))

\* [part.strip() for part in pieces if part.strip()]
RECURSIVE StripNonEmpty(_)
StripNonEmpty(pieces) ==
  IF pieces = << >> THEN << >>
  ELSE IF Strip(Head(pieces)) = EmptyStr THEN StripNonEmpty(Tail(pieces))
  ELSE << Strip(Head(pieces)) >> \o StripNonEmpty(Tail(pieces))

\* s.split(None, 1) for a stripped, non-empty s
SplitOnce(s) ==
  IF \A k \in DOMAIN s : ~IsSpaceChar(s[k]) THEN << s >>
  ELSE LET i == CHOOSE k \in DOMAIN s :
                  IsSpaceChar(s[k]) /\ \A j \in 1 .. (k - 1) : ~IsSpaceChar(s[j])
       IN << SubSeq(s, 1, i - 1), LStrip(SubSeq(s, i, Len(s))) >>

\* parts, as func computes them from self.args
CreateParts(raw_args) ==
  LET parts == StripNonEmpty(SplitQuotes(Strip(raw_args)))
  IN IF Len(parts) = 1 THEN SplitOnce(parts[1]) ELSE parts

\* if len(parts) != 2: usage
ParseOk(parts) == Len(parts) = 2

\* Account.normalize_username: runs of whitespace become one space
RECURSIVE normalize_username(_)
normalize_username(s) ==
  IF Len(s) < 2 THEN s
  ELSE IF IsSpaceChar(s[1]) /\ IsSpaceChar(s[2]) THEN normalize_username(Tail(s))
  ELSE << IF IsSpaceChar(s[1]) THEN " " ELSE s[1] >> \o normalize_username(Tail(s))

\* if answer.lower() in ("n", "no")
AnswerDeclines(answer) == Lower(answer) \in { S_n, S_no }

ConsentGiven_unless_no(tos_answer) == Lower(tos_answer) \notin { S_n, S_no }

\* if tos_answer.lower() not in ("yes", "y")
ConsentGiven(tos_answer) == Lower(tos_answer) \in { S_yes, S_y }

IdleLogin(created) ==
  [ pc |-> "idle", username |-> None, password |-> None,
    answer |-> None, tos_answer |-> None, created |-> created ]

SessionStep(op, input, out) ==
  [ op |-> op, acct |-> "session", input |-> input, kwargs |-> EmptyKwargs, out |-> out ]

\* create <args>: func up to its first yield
CreateCommand(raw_args) ==
  LET parts == CreateParts(raw_args)
      username == normalize_username(parts[1])
      note == IF username # parts[1]
              THEN << Msg("Note: your username was normalized", username) >> ELSE << >>
  IN
  /\ login.pc = "idle"
  /\ UNCHANGED << objects, accounts, menu >>
  /\ IF ~ParseOk(parts)
     THEN /\ login' = IdleLogin(login.created)
          /\ last' = SessionStep("create", raw_args,
                                 << Msg("Usage (without <>): create <n> <password>", None) >>)
     ELSE /\ login' = [ IdleLogin(login.created) EXCEPT
                          !.pc = "confirm", !.username = username, !.password = parts[2] ]
          /\ last' = SessionStep("create", raw_args,
                                 Append(note, Msg("Is this what you intended? [Y]/N?", username)))

\* func from the first yield to the second
CreateAnswer(answer) ==
  /\ login.pc = "confirm"
  /\ UNCHANGED << objects, accounts, menu >>
  /\ IF AnswerDeclines(answer)
     THEN /\ login' = IdleLogin(login.created)
          /\ last' = SessionStep("create_answer", answer,
                                 << Msg("Aborted. If your user name contains spaces, surround it by quotes.", None) >>)
     ELSE /\ login' = [ login EXCEPT !.pc = "consent", !.answer = answer ]
          /\ last' = SessionStep("create_answer", answer,
                                 << Msg("TERMS OF SERVICE", None), Msg("CODE OF CONDUCT", None),
                                    Msg("Do you agree to the Terms of Service and Code of Conduct? (yes/no)", None) >>)

\* func from the second yield to its end; created tells whether
\* Account.create returned an account
CreateConsent(tos_answer, created) ==
  /\ login.pc = "consent"
  /\ UNCHANGED << objects, accounts, menu >>
  /\ IF ~ConsentGiven(tos_answer)
     THEN /\ login' = IdleLogin(login.created)
          /\ last' = SessionStep("create_consent", tos_answer,
                                 << Msg("You must agree to the Terms of Service and Code of Conduct to create an account.", None) >>)
     ELSE IF created /\ login.username \notin login.created
     THEN /\ login' = [ IdleLogin(login.created \cup { login.username }) EXCEPT
                          !.username = login.username, !.password = login.password,
                          !.answer = login.answer, !.tos_answer = tos_answer ]
          /\ last' = SessionStep("create_consent", tos_answer,
                                 << Msg("A new account was created. Welcome!", login.username) >>)
     ELSE /\ login' = [ IdleLogin(login.created) EXCEPT
                          !.username = login.username, !.password = login.password,
                          !.answer = login.answer, !.tos_answer = tos_answer ]
          /\ last' = SessionStep("create_consent", tos_answer,
                                 << Msg("Account.create errors", login.username) >>)

S_amy_pw == <<" ","a","m","y"," ","p","w">>

S_amy == <<"a","m","y">>

S_amy_pw_x == <<"a","m","y"," ","p","w"," ","x">>

S_quoted == <<"\"","a"," "," ","b","\""," ","\"","p"," ","w","\"">>

S_three_quoted == <<"\"","a","\""," ","\"","b","\""," ","\"","c","\"">>

CreateArgs == { EmptyStr, S_amy_pw, S_amy, S_amy_pw_x, S_quoted, S_three_quoted }

S_n_padded == <<" ","n">>

AnswerInputs == { EmptyStr, S_y, S_n, S_NO, S_no, S_n_padded }

ConsentInputs == { EmptyStr, S_y, S_Y, S_yes, S_YES_padded, S_no, S_ye }

\* ----------------------------------------------------- utils/resources.py
\* What open(resource_path, 'r') and f.read() can do: succeed, or raise one
\* of these exceptions
ReadErrors ==
  { "FileNotFoundError", "PermissionError", "IsADirectoryError", "UnicodeDecodeError" }

ReadOutcomes == { "ok" } \cup ReadErrors

Catches_exact(handler, exc) == exc = handler

\* except <handler>: catches the class and its subclasses
Catches(handler, exc) ==
  \/ exc = handler
  \/ handler = "Exception" /\ exc \in ReadErrors

\* get_text_resource(filename), given what reading the file does
get_text_resource(filename, outcome, content) ==
  IF outcome = "ok"
  THEN [ raised |-> "none", value |-> content ]
  ELSE IF Catches("FileNotFoundError", outcome)
  THEN [ raised |-> "none",
         value |-> << "Error: Could not find resource file '" >> \o filename \o << "'" >> ]
  ELSE IF Catches("Exception", outcome)
  THEN [ raised |-> "none", value |-> << "Error loading resource: ", outcome >> ]
  ELSE [ raised |-> outcome, value |-> None ]

\* A call of get_text_resource by the session's command
GetTextResource(filename, outcome, content) ==
  LET r == get_text_resource(filename, outcome, content) IN
  /\ UNCHANGED << objects, accounts, menu, login >>
  /\ last' = SessionStep("get_text_resource", filename,
                         << Msg("read", << outcome >>), Msg("content", content),
                            Msg("raised", << r.raised >>), Msg("returned", r.value) >>)

S_tos_txt == <<"t","o","s",".","t","x","t">>

ResourceNames == { S_tos_txt, EmptyStr }

S_terms == <<"T","e","r","m","s">>

ResourceContents == { S_terms, EmptyStr }

\* Identifiers handed to the registries directly
RegistryInputs == { S_Human, S_HUMAN, S_warrior, S_Elf, EmptyStr }

\* The session that walks through the menu in Spec
Players == { "acct1" }

\* The workflow: one account walks through the menu while the other one's
\* character may come into existence.
Next ==
  \/ \E a \in Accounts, created \in BOOLEAN : start_chargen(a, created)
  \/ \E a \in Players, raw \in { EmptyStr, S_x } : WelcomeInput(a, raw)
  \/ \E a \in Players, raw \in NameInputs : \E hk \in EngineKwargs(a) : NameInput(a, raw, hk)
  \/ \E a \in Players, raw \in EmailInputs : \E hk \in EngineKwargs(a) : EmailInput(a, raw, hk)
  \/ \E a \in Players, raw \in SelectInputs : \E hk \in EngineKwargs(a) : RaceInput(a, raw, hk)
  \/ \E a \in Players, raw \in SelectInputs : \E hk \in EngineKwargs(a) : ClassInput(a, raw, hk)
  \/ \E a \in Players, raw \in ConfirmInputs : \E hk \in EngineKwargs(a) : ConfirmInput(a, raw, hk)
  \/ \E a \in Players : QuitMenu(a)
  \/ \E a \in Players : DeleteCharacter(a)

Spec == Init /\ [][Next]_vars

\* The registries and the terminal step called directly on characters that
\* start_chargen created.
NextApply ==
  \/ \E a \in Accounts, created \in BOOLEAN : start_chargen(a, created)
  \/ \E a \in Players, name \in RegistryInputs : ApplyRace(a, name)
  \/ \E a \in Players, name \in RegistryInputs : ApplyClass(a, name)
  \/ \E a \in Players, kw \in ForcedKwargs : ForceApply(a, kw)
  \/ \E a \in Players, skill \in GainedSkills : GainSkill(a, skill)
  \/ \E a \in Players, script_key \in UnrelatedScripts : AttachScript(a, script_key)
  \/ \E a \in Players : DeleteCharacter(a)

SpecApply == Init /\ [][NextApply]_vars

\* The pre-login session
NextLogin ==
  \/ \E raw_args \in CreateArgs : CreateCommand(raw_args)
  \/ \E answer \in AnswerInputs : CreateAnswer(answer)
  \/ \E tos_answer \in ConsentInputs, created \in BOOLEAN : CreateConsent(tos_answer, created)
  \/ \E filename \in ResourceNames, outcome \in ReadOutcomes, content \in ResourceContents :
        GetTextResource(filename, outcome, content)

SpecLogin == Init /\ [][NextLogin]_vars

\* Two sessions generating at the same time, one line of input at a time
ConcurrentNames == { S_bob, S_ANN }

NextConcurrent ==
  \/ \E a \in Accounts, created \in BOOLEAN : start_chargen(a, created)
  \/ \E a \in Accounts : WelcomeInput(a, EmptyStr)
  \/ \E a \in Accounts, raw \in ConcurrentNames : NameInput(a, raw, menu[a].kwargs)
  \/ \E a \in Accounts : EmailInput(a, EmptyStr, menu[a].kwargs)
  \/ \E a \in Accounts : RaceInput(a, S_1, menu[a].kwargs)
  \/ \E a \in Accounts : ClassInput(a, S_1, menu[a].kwargs)
  \/ \E a \in Accounts, raw \in { S_y, S_n } : ConfirmInput(a, raw, menu[a].kwargs)

SpecConcurrent == Init /\ [][NextConcurrent]_vars

\* The commands, on characters at any stage of generation
CommandKwargs ==
  { [ email |-> None, race |-> None, char_class |-> None ],
    [ email |-> None, race |-> S_Elf, char_class |-> S_Mage ] }

NextCommands ==
  \/ \E a \in Accounts, created \in BOOLEAN : start_chargen(a, created)
  \/ \E a \in Players, args \in CharCreateArgs, outcome \in CreateOutcomes :
        CmdCharCreate(a, args, outcome)
  \/ \E a \in Players, kw \in CommandKwargs : ForceApply(a, kw)
  \/ \E a \in Players : CmdScore(a)
  \/ \E a \in Players : CmdCharacterInfo(a)
  \/ \E a \in Players : DeleteCharacter(a)

SpecCommands == Init /\ [][NextCommands]_vars

\* ---------------------------------------------------------------- claims
\* The account of the operation executed last, and its character
Actor == last.acct

ActorCharacter == objects[Puppet(Actor)]

\* The terminal step ran to its end on the actor's character
TerminalStepFinished ==
  /\ HasPuppet(Actor)
  /\ \/ last.op = "force_apply"
     \/ last.op = "node_confirm" /\ menu[Actor].node = "node_apply_character"

\* name matches no key of the registry, ignoring case
Unregistered(map, name) == \A i \in DOMAIN map : Lower(name) # map[i].k

HasMsg(out, text) == \E i \in DOMAIN out : out[i].text = text

\* The number of attached scripts whose key is one of keys
CountScripts(scripts, keys) == Cardinality({ i \in DOMAIN scripts : scripts[i] \in keys })

\* C1: whenever the terminal step finishes, chargen_complete is true and
\* race and char_class hold real values; when the threaded race (class) is
\* not in the registry, a warning was sent and the default "Human"
\* ("Warrior") was substituted.
C1_TerminalStepFallsBackToDefaults ==
  TerminalStepFinished =>
    LET race == KwGet(last.kwargs, "race", S_Human)
        char_class == KwGet(last.kwargs, "char_class", S_Warrior)
    IN /\ ActorCharacter.chargen_complete
       /\ ActorCharacter.race # None
       /\ ActorCharacter.char_class # None
       /\ Unregistered(race_map, race) =>
            /\ ActorCharacter.race = S_Human
            /\ HasMsg(last.out, "Warning: Failed to apply race. Using default.")
       /\ Unregistered(class_map, char_class) =>
            /\ ActorCharacter.char_class = S_Warrior
            /\ HasMsg(last.out, "Warning: Failed to apply class. Using default.")

\* C2: in every reachable state, a character with chargen_complete = true
\* has race and char_class set and exactly one race definition and exactly
\* one class definition attached.
C2_CompleteImpliesRaceAndClassApplied ==
  \A o \in ObjIds :
    (Exists(o) /\ objects[o].chargen_complete) =>
      /\ objects[o].race # None
      /\ objects[o].char_class # None
      /\ CountScripts(objects[o].scripts, MapScriptKeys(race_map)) = 1
      /\ CountScripts(objects[o].scripts, MapScriptKeys(class_map)) = 1

\* C3: start_chargen for an account whose character has chargen_complete =
\* true starts no menu, leaves every character and account field (and the
\* session's menu) as it was, and sends the "already completed" notice.
C3_CompletedCharacterIsNotRegenerated ==
  [][ ( /\ last'.op = "start_chargen"
        /\ HasPuppet(last'.acct)
        /\ objects[Puppet(last'.acct)].chargen_complete )
      => /\ objects' = objects
         /\ accounts' = accounts
         /\ menu' = menu
         /\ last'.out = << Msg("Character generation already completed.", None) >> ]_vars

C3_Witness ==
  /\ last.op = "start_chargen"
  /\ HasPuppet(Actor)
  /\ ActorCharacter.chargen_complete
  /\ ActorCharacter.race = S_Human
  /\ last.out = << Msg("Character generation already completed.", None) >>
  /\ menu[Actor].node \notin ActiveNodes

\* A candidate name that, after trimming, is empty, shorter than 2
\* characters, longer than 16 characters or holds a non-letter
MalformedName(raw) ==
  LET n == Strip(raw) IN
  \/ Len(n) < 2
  \/ Len(n) > 16
  \/ \E i \in DOMAIN n : ~IsAlphaChar(n[i])

\* C4: at the name step a malformed candidate name is rejected: the workflow
\* stays on the name step and no character field, shadow field or account
\* field changes.
C4_MalformedNameRejectedWithoutMutation ==
  [][ (last'.op = "node_name" /\ MalformedName(last'.input))
      => /\ menu'[last'.acct].node = "node_name"
         /\ menu'[last'.acct].kwargs = menu[last'.acct].kwargs
         /\ objects' = objects
         /\ accounts' = accounts ]_vars

C4_Witness ==
  /\ last.op = "node_name"
  /\ last.input = S_seventeen
  /\ HasPuppet(Actor)
  /\ menu[Actor].node = "node_name"
  /\ last.out = << Msg("Name can be up to 16 characters long.", None) >>

\* Some existing entity other than account a's own character is named
\* `name`, ignoring case
OtherEntityNamed(a, name) ==
  \E o \in ObjIds : o # Puppet(a) /\ Exists(o) /\ Lower(objects[o].key) = Lower(name)

\* C5: at the name step a well-formed candidate is rejected whenever another
\* existing entity bears that name ignoring case, and accepted otherwise; the
\* character being generated is left out of the comparison, so its own
\* current name is accepted in any letter case.
C5_NameUniqueIgnoringCaseExceptSelf ==
  [][ (last'.op = "node_name" /\ ~MalformedName(last'.input))
      => IF OtherEntityNamed(last'.acct, Strip(last'.input))
         THEN /\ menu'[last'.acct].node = "node_name"
              /\ objects' = objects
              /\ HasMsg(last'.out, "The name is already taken. Please choose another name.")
         ELSE /\ menu'[last'.acct].node = "node_email"
              /\ HasPuppet(last'.acct) =>
                   objects'[Puppet(last'.acct)].key = Capitalize(Strip(last'.input)) ]_vars

C5_Witness ==
  /\ last.op = "node_name"
  /\ last.input = S_BOB
  /\ HasPuppet(Actor)
  /\ ActorCharacter.key = S_Ann
  /\ OtherEntityNamed(Actor, S_Bob)
  /\ menu[Actor].node = "node_name"
  /\ HasMsg(last.out, "The name is already taken. Please choose another name.")

\* The email step accepted the last input / prompted again
EmailAccepted == menu[Actor].node = "node_race"

EmailRejected ==
  /\ menu[Actor].node = "node_email"
  /\ HasMsg(last.out,
       "That doesn't look like a valid email address. Try again or press enter to skip.")

\* C6 as stated: "" is accepted, "a@b" is accepted, "ab" and "a.b" are
\* rejected.
C6_EmailExamplesAsStated ==
  last.op = "node_email" =>
    /\ last.input \in { EmptyStr, S_a_at_b } => EmailAccepted
    /\ last.input \in { S_ab, S_a_dot_b } => EmailRejected

\* C6 (amended): "" is accepted (skip); "a@b" is rejected, as it holds no
\* "."; "a@b.c" is accepted; "ab" and "a.b" (no @) are rejected.
C6_EmailExamples ==
  last.op = "node_email" =>
    /\ last.input \in { EmptyStr, S_a_at_b_dot_c } => EmailAccepted
    /\ last.input \in { S_a_at_b, S_ab, S_a_dot_b } => EmailRejected

C6_Witness ==
  /\ last.op = "node_email"
  /\ last.input = S_a_at_b
  /\ EmailRejected
  /\ accounts[Actor].email = EmptyStr

\* C7: the email step accepts an input, moving to the race step, exactly
\* when it is empty after trimming or holds both '@' and '.'; any other
\* input prompts the email step again with no state changed.
C7_EmailAcceptedIffEmptyOrAtAndDot ==
  [][ last'.op = "node_email" =>
        LET a == last'.acct
            e == Strip(last'.input)
        IN IF \/ e = EmptyStr
              \/ (\E i \in DOMAIN e : e[i] = "@") /\ (\E j \in DOMAIN e : e[j] = ".")
           THEN /\ menu'[a].node = "node_race"
                /\ menu'[a].kwargs.email = e
           ELSE /\ menu'[a].node = "node_email"
                /\ menu'[a].kwargs = menu[a].kwargs
                /\ objects' = objects
                /\ accounts' = accounts ]_vars

C7_Witness ==
  /\ last.op = "node_email"
  /\ last.input = S_dot_at_padded
  /\ menu[Actor].node = "node_race"
  /\ menu[Actor].kwargs.email = << ".", "@" >>

\* The decimal numeral of a listing position
Numeral(i) == << Digits[i + 1] >>

\* The trimmed input is position i of the listing as a numeral, or the name
\* of entry i in some letter case
NamesEntry(raw, available, i) ==
  \/ Strip(raw) = Numeral(i)
  \/ Lower(Strip(raw)) = Lower(available[i])

\* The trimmed input is empty, a number outside 1..Len(available), or text
\* that is no entry's name in any letter case
BadSelection(raw, available) ==
  LET c == Strip(raw) IN
  \/ c = EmptyStr
  \/ IsIntLiteral(c) /\ ParseInt(c) \notin 1 .. Len(available)
  \/ ~IsIntLiteral(c) /\ \A i \in DOMAIN available : Lower(c) # Lower(available[i])

\* What C8 asks of one selection step
SelectionStepOk(a, raw, available, node, next, field, shadow, objs, objs1, m, m1) ==
  /\ \A i \in DOMAIN available :
       NamesEntry(raw, available, i) =>
         /\ m1.node = next
         /\ m1.kwargs[field] = available[i]
         /\ HasPuppet(a) => objs1[Puppet(a)][shadow] = available[i]
  /\ BadSelection(raw, available) =>
       /\ m1.node = node
       /\ m1.kwargs = m.kwargs
       /\ objs1 = objs

\* C8: at the race step and at the class step, the 1-based index and the
\* name in any letter case of every listed entry are accepted and resolve
\* to the entry's canonical identifier; an out-of-range index (0 and
\* negative numbers too), an unknown name and an empty input are rejected
\* with the step, the threaded state and the shadow fields unchanged.
C8_SelectionByIndexOrName ==
  [][ /\ last'.op = "node_race" =>
           SelectionStepOk(last'.acct, last'.input, get_available_races,
                           "node_race", "node_class", "race", "ndb_race",
                           objects, objects', menu[last'.acct], menu'[last'.acct])
      /\ last'.op = "node_class" =>
           SelectionStepOk(last'.acct, last'.input, get_available_classes,
                           "node_class", "node_confirm", "char_class", "ndb_class",
                           objects, objects', menu[last'.acct], menu'[last'.acct]) ]_vars

C8_Witness ==
  /\ last.op = "node_class"
  /\ last.input = S_WARRIOR
  /\ HasPuppet(Actor)
  /\ ActorCharacter.ndb_class = S_Warrior
  /\ ActorCharacter.ndb_race = S_Human
  /\ menu[Actor].node = "node_confirm"
  /\ menu[Actor].kwargs.char_class = S_Warrior

\* The value an apply_race / apply_class call returned, and the scripts it
\* deleted
Returned == last.out[1].arg

Deleted == last.out[2].arg

\* C9: a character never has more than one race definition nor more than
\* one class definition attached, and right after a successful apply_race
\* (apply_class) it has exactly one race (class) definition.
C9_ExactlyOneDefinitionPerCategory ==
  /\ \A o \in ObjIds :
       /\ CountScripts(objects[o].scripts, MapScriptKeys(race_map)) <= 1
       /\ CountScripts(objects[o].scripts, MapScriptKeys(class_map)) <= 1
  /\ (last.op = "apply_race" /\ Returned = PyTrue) =>
       CountScripts(ActorCharacter.scripts, MapScriptKeys(race_map)) = 1
  /\ (last.op = "apply_class" /\ Returned = PyTrue) =>
       CountScripts(ActorCharacter.scripts, MapScriptKeys(class_map)) = 1

\* A successful apply_race on a character that already had a race
\* definition, which the call deleted
C9_Witness ==
  /\ last.op = "apply_race"
  /\ Returned = PyTrue
  /\ Deleted = << "human_race" >>
  /\ CountScripts(ActorCharacter.scripts, MapScriptKeys(race_map)) = 1
  /\ CountScripts(ActorCharacter.scripts, MapScriptKeys(class_map)) = 1

\* sub occurs in s as a run of consecutive elements
Occurs(sub, s) ==
  \E i \in 1 .. (Len(s) - Len(sub) + 1) : SubSeq(s, i, i + Len(sub) - 1) = sub

\* The returned value is an error text that lists every key of the registry
FailureListing(ret, map) ==
  /\ ret # PyTrue
  /\ \A i \in DOMAIN map : Occurs(map[i].k, ret)

\* C10: apply_race with a name matching no registered race, and apply_class
\* with a name matching no registered class, return a failure that lists
\* the valid identifiers and leave the character as it was (race,
\* char_class, skills, attached definitions).
C10_UnknownIdentifierLeavesCharacterUnmodified ==
  [][ /\ (last'.op = "apply_race" /\ Unregistered(race_map, last'.input)) =>
           /\ FailureListing(last'.out[1].arg, race_map)
           /\ objects' = objects
      /\ (last'.op = "apply_class" /\ Unregistered(class_map, last'.input)) =>
           /\ FailureListing(last'.out[1].arg, class_map)
           /\ objects' = objects ]_vars

C10_Witness ==
  /\ last.op = "apply_race"
  /\ last.input = S_Elf
  /\ FailureListing(Returned, race_map)
  /\ ActorCharacter.race = S_Human
  /\ ActorCharacter.scripts = << "human_race" >>

\* --------------------------------------------------- end-to-end scenario
S_Arin == <<"A","r","i","n">>

\* Both accounts type the scenario's lines: name "Arin", no email, race "1",
\* class "warrior", confirm "y".
NextScenario ==
  \/ \E a \in Accounts, created \in BOOLEAN : start_chargen(a, created)
  \/ \E a \in Accounts : WelcomeInput(a, EmptyStr)
  \/ \E a \in Accounts : \E hk \in EngineKwargs(a) : NameInput(a, S_Arin, hk)
  \/ \E a \in Accounts : \E hk \in EngineKwargs(a) : EmailInput(a, EmptyStr, hk)
  \/ \E a \in Accounts : \E hk \in EngineKwargs(a) : RaceInput(a, S_1, hk)
  \/ \E a \in Accounts : \E hk \in EngineKwargs(a) : ClassInput(a, S_warrior, hk)
  \/ \E a \in Accounts : \E hk \in EngineKwargs(a) : ConfirmInput(a, S_y, hk)

SpecScenario == Init /\ [][NextScenario]_vars

\* C11: the run name "Arin", empty email, race "1", class "warrior",
\* confirm "y" ends with race "Human", char_class "Warrior",
\* chargen_complete true and skills {combat: 1, survival: 1}.
C11_ScenarioArinHumanWarrior ==
  \A a \in Accounts :
    menu[a].node = "node_apply_character" =>
      /\ HasPuppet(a)
      /\ objects[Puppet(a)].key = S_Arin
      /\ objects[Puppet(a)].race = S_Human
      /\ objects[Puppet(a)].char_class = S_Warrior
      /\ objects[Puppet(a)].chargen_complete
      /\ objects[Puppet(a)].skills = { <<"combat", 1>>, <<"survival", 1>> }

C11_Witness ==
  /\ last.op = "node_confirm"
  /\ last.input = S_y
  /\ menu[Actor].node = "node_apply_character"
  /\ ActorCharacter.key = S_Arin
  /\ ActorCharacter.ndb_email = EmptyStr
  /\ ActorCharacter.chargen_complete
  /\ ActorCharacter.skills = { <<"combat", 1>>, <<"survival", 1>> }

\* ------------------------------------------------------ restart on "n"
Declined(raw) == Lower(Strip(raw)) \in { S_n, S_no }

ShadowsCleared(ch) ==
  /\ ch.ndb_name = None
  /\ ch.ndb_email = None
  /\ ch.ndb_race = None
  /\ ch.ndb_class = None

\* C12 as stated: after "n" (or "no") at the confirm step the workflow is at
\* the name step, the threaded state is empty, and no earlier choice is
\* left in the character's shadow fields or on the account.
C12_DeclineClearsEveryRecord ==
  (last.op = "node_confirm" /\ Declined(last.input)) =>
    /\ menu[Actor].node = "node_name"
    /\ menu[Actor].kwargs = EmptyKwargs
    /\ HasPuppet(Actor) => ShadowsCleared(ActorCharacter)
    /\ accounts[Actor].email = EmptyStr

\* C12, amended: "n" (or "no") at the confirm step returns to the name step
\* with an empty threaded state and the notice "Let's start over."; the
\* character (its name and shadow fields included) and the account are left
\* exactly as they were.
C12_DeclineEmptiesThreadedStateOnly ==
  [][ (last'.op = "node_confirm" /\ Declined(last'.input)) =>
        /\ menu'[last'.acct].node = "node_name"
        /\ menu'[last'.acct].kwargs = EmptyKwargs
        /\ last'.out = << Msg("Let's start over.", None) >>
        /\ objects' = objects
        /\ accounts' = accounts ]_vars

C12_Witness ==
  /\ last.op = "node_confirm"
  /\ Declined(last.input)
  /\ last.kwargs # EmptyKwargs
  /\ menu[Actor].node = "node_name"
  /\ HasPuppet(Actor)
  /\ ActorCharacter.ndb_race = S_Human
  /\ ActorCharacter.ndb_class = S_Warrior
  /\ accounts[Actor].email # EmptyStr

\* ------------------------------------------- choices carried forward
\* The value a step works with when it reads a threaded choice.
InUse(kwargs, key, default) == KwGet(kwargs, key, default)

\* The choice the user made at its step, as the step recorded it.
Chosen(ch, field, default) == IF ch[field] = None THEN default ELSE ch[field]

CarriedTo(a, default_race, default_class) ==
  LET ch == objects[Puppet(a)]
      kw == menu[a].kwargs
  IN /\ ch.ndb_email # None =>
          InUse(kw, "email", EmptyStr) = Chosen(ch, "ndb_email", EmptyStr)
     /\ ch.ndb_race # None =>
          InUse(kw, "race", default_race) = Chosen(ch, "ndb_race", default_race)
     /\ ch.ndb_class # None =>
          InUse(kw, "char_class", default_class) = Chosen(ch, "ndb_class", default_class)

\* C13: whatever threaded state the engine hands the handlers, the email,
\* race and class that the confirm step and the apply step work with are
\* the ones the user chose at their steps.
C13_ChoicesCarriedForward ==
  HasPuppet(Actor) =>
    /\ (last.op = "node_class" /\ menu[Actor].node = "node_confirm") =>
          CarriedTo(Actor, None, None)
    /\ (last.op = "node_confirm" /\ menu[Actor].node = "node_apply_character") =>
          CarriedTo(Actor, S_Human, S_Warrior)

\* ------------------------------------------------ forward progression
InputSteps ==
  { "node_welcome", "node_name", "node_email", "node_race", "node_class",
    "node_confirm" }

StepOrder ==
  << "node_welcome", "node_name", "node_email", "node_race", "node_class",
     "node_confirm", "node_apply_character" >>

Successor(node) == StepOrder[IndexOf(node, StepOrder) + 1]

AllowedNext(node) ==
  IF node = "node_welcome" THEN { "node_name" }
  ELSE IF node = "node_confirm"
  THEN { "node_confirm", "node_apply_character", "node_name" }
  ELSE { node, Successor(node) }

\* C14: every line of input is handled by the step the menu is at and moves
\* the menu only as the table allows: welcome to name; name, email, race,
\* class to themselves or their successor; confirm to confirm, apply or
\* name; no input is handled once the apply step has run.
C14_OnlyForwardOrRestart ==
  [][ last'.op \in InputSteps =>
        /\ menu[last'.acct].node = last'.op
        /\ menu'[last'.acct].node \in AllowedNext(menu[last'.acct].node)
        /\ \A b \in Accounts \ { last'.acct } : menu'[b] = menu[b] ]_vars

C14_Witness ==
  /\ last.op = "node_name"
  /\ menu[Actor].node = "node_email"
  /\ HasPuppet(Actor)
  /\ ActorCharacter.ndb_class # None
  /\ ~ActorCharacter.chargen_complete

\* ------------------------------------------------- score and charinfo
ContinueNotice ==
  << Msg("You have not completed character creation. Type 'look' to continue.", None) >>

ScoreShows(out, ch) ==
  /\ \E i \in DOMAIN out : out[i].text = "sheet race" /\ out[i].arg = OrUnknown(ch.race)
  /\ \E i \in DOMAIN out : out[i].text = "sheet class" /\ out[i].arg = OrUnknown(ch.char_class)
  /\ \E i \in DOMAIN out : out[i].text = "sheet stats" /\ out[i].arg = StatsText(ch.stats)
  /\ \E i \in DOMAIN out : out[i].text = "sheet skills" /\ out[i].arg = SkillText(ch.skills)

InfoShows(out, ch) ==
  /\ \E i \in DOMAIN out : out[i].text = "info race" /\ out[i].arg = OrUnknown(ch.race)
  /\ \E i \in DOMAIN out : out[i].text = "info class" /\ out[i].arg = OrUnknown(ch.char_class)
  /\ \E i \in DOMAIN out :
        /\ out[i].text = "info chargen"
        /\ out[i].arg = (IF ch.chargen_complete THEN S_Yes ELSE S_No)

ReadOnlyStep == objects' = objects /\ accounts' = accounts /\ menu' = menu

\* C15 as stated: score and charinfo both answer an incomplete character
\* with the notice to continue generation and nothing else, show the
\* current values of a completed one, and change no state.
C15_BothCommandsRefuseUntilComplete ==
  [][ last'.op \in { "score", "charinfo" } =>
        LET ch == objects[Puppet(last'.acct)] IN
        /\ ReadOnlyStep
        /\ ~ch.chargen_complete => last'.out = ContinueNotice
        /\ (ch.chargen_complete /\ last'.op = "score") => ScoreShows(last'.out, ch)
        /\ (ch.chargen_complete /\ last'.op = "charinfo") => InfoShows(last'.out, ch) ]_vars

\* C15, amended: score answers an incomplete character with the notice to
\* continue generation and nothing else, and shows race, class, stats and
\* skills of a completed one; charinfo has no such guard and shows race,
\* class ("Unknown" when unset) and the completion flag of any character;
\* neither command changes any state.
C15_OnlyScoreRefusesUntilComplete ==
  [][ last'.op \in { "score", "charinfo" } =>
        LET ch == objects[Puppet(last'.acct)] IN
        /\ ReadOnlyStep
        /\ last'.op = "score" =>
             IF ch.chargen_complete THEN ScoreShows(last'.out, ch)
             ELSE last'.out = ContinueNotice
        /\ last'.op = "charinfo" => InfoShows(last'.out, ch) ]_vars

C15_Witness ==
  /\ last.op = "charinfo"
  /\ HasPuppet(Actor)
  /\ ~ActorCharacter.chargen_complete
  /\ \E i \in DOMAIN last.out : last.out[i].text = "info race" /\ last.out[i].arg = S_Unknown
  /\ \E i \in DOMAIN last.out : last.out[i].text = "info chargen" /\ last.out[i].arg = S_No

\* ------------------------------------------------------------ charcreate
UsageNotice == << Msg("Usage: charcreate <charname> [= description]", None) >>

\* The object the command's step added to the store, if any
CreatedBy(a) ==
  { o \in ObjIds : objects[o].key = None /\ objects'[o].key # None }

\* C17: charcreate opens the generation menu only in a step in which
\* create_character returned a new character; when creation fails it sends
\* the returned error text and leaves the menu alone; with no arguments it
\* sends the usage text and neither creates a character nor touches the
\* menu.
C17_CharCreateStartsOnlyOnSuccess ==
  [][ last'.op = "charcreate" =>
        LET a == last'.acct IN
        /\ menu'[a] # menu[a] => CreatedBy(a) # {}
        /\ ~Truthy(last'.input) =>
             /\ last'.out = UsageNotice
             /\ objects' = objects /\ accounts' = accounts /\ menu' = menu
        /\ (Truthy(last'.input) /\ CreatedBy(a) = {}) =>
             /\ last'.out = << Msg("errors", << "create_character errors" >>) >>
             /\ objects' = objects /\ accounts' = accounts /\ menu' = menu
        /\ CreatedBy(a) # {} =>
             /\ CreatedBy(a) = { accounts'[a].last_puppet }
             /\ menu'[a].node = "node_welcome"
             /\ menu'[a].kwargs = EmptyKwargs ]_vars

C17_Witness ==
  /\ last.op = "charcreate"
  /\ last.input = S_dan_eq
  /\ menu[Actor].node = "node_welcome"
  /\ ActorCharacter.key = << "D", "a", "n" >>
  /\ \E i \in DOMAIN last.out : last.out[i].text = "errors"

\* --------------------------------------------------- pre-login create
AccountCreateCalled ==
  \/ login'.created # login.created
  \/ /\ last'.op \in { "create", "create_answer", "create_consent" }
     /\ \E i \in DOMAIN last'.out :
          last'.out[i].text \in { "A new account was created. Welcome!",
                                  "Account.create errors" }

EndsWithMessageOnly ==
  /\ ~AccountCreateCalled
  /\ login'.pc = "idle"
  /\ last'.out # << >>

\* C16: Account.create is called only by the step that receives the consent
\* answer "y"/"yes", which is reached only after a confirmation answer other
\* than "n"/"no", which is reached only after the arguments parsed to
\* exactly a username and a password; a parse failure, a declined
\* confirmation and every other consent answer end the command with a
\* message and without the call.
C16_AccountCreatedOnlyAfterParseConfirmConsent ==
  [][ /\ AccountCreateCalled =>
           /\ last'.op = "create_consent"
           /\ login.pc = "consent"
           /\ Lower(last'.input) \in { S_y, S_yes }
      /\ (login'.pc = "consent" /\ login.pc # "consent") =>
           /\ last'.op = "create_answer"
           /\ login.pc = "confirm"
           /\ Lower(last'.input) \notin { S_n, S_no }
      /\ (login'.pc = "confirm" /\ login.pc # "confirm") =>
           /\ last'.op = "create"
           /\ login.pc = "idle"
           /\ Len(CreateParts(last'.input)) = 2
           /\ login'.password = CreateParts(last'.input)[2]
      /\ (last'.op = "create" /\ Len(CreateParts(last'.input)) # 2) => EndsWithMessageOnly
      /\ (last'.op = "create_answer" /\ Lower(last'.input) \in { S_n, S_no }) =>
           EndsWithMessageOnly
      /\ (last'.op = "create_consent" /\ Lower(last'.input) \notin { S_y, S_yes }) =>
           EndsWithMessageOnly ]_vars

C16_Witness ==
  /\ last.op = "create_consent"
  /\ last.input = S_Y
  /\ login.created = { << "a", " ", "b" >> }
  /\ login.password = << "p", " ", "w" >>
  /\ login.answer = S_n_padded

\* ------------------------------------------------------- resource loader
OutArg(text) == (CHOOSE m \in Range(last.out) : m.text = text).arg

\* C19: get_text_resource never raises: a readable file gives its content,
\* a missing file gives the "Could not find resource file" text naming the
\* file, and every other read error gives the "Error loading resource" text.
C19_GetTextResourceNeverRaises ==
  last.op = "get_text_resource" =>
    /\ OutArg("raised") = << "none" >>
    /\ OutArg("read") = << "ok" >> => OutArg("returned") = OutArg("content")
    /\ OutArg("read") = << "FileNotFoundError" >> =>
         OutArg("returned") =
           << "Error: Could not find resource file '" >> \o last.input \o << "'" >>
    /\ OutArg("read") \notin { << "ok" >>, << "FileNotFoundError" >> } =>
         /\ OutArg("returned") # None
         /\ Head(OutArg("returned")) = "Error loading resource: "

C19_Witness ==
  /\ last.op = "get_text_resource"
  /\ last.input = S_tos_txt
  /\ OutArg("read") = << "PermissionError" >>
  /\ OutArg("returned") = << "Error loading resource: ", "PermissionError" >>

\* ------------------------------------------------- skills overwritten
\* C18: a successful apply_class leaves the character with exactly the
\* skills of the class definition (a skill it had before that the class
\* does not define is gone) and with char_class equal to the definition's
\* name.
C18_ApplyClassOverwritesSkills ==
  [][ (last'.op = "apply_class" /\ last'.out[1].arg = PyTrue) =>
        LET p == Puppet(last'.acct)
            definition == MapGet(class_map, Lower(last'.input))
        IN /\ objects'[p].skills = definition.skills
           /\ objects'[p].char_class = definition.name
           /\ \A sk \in objects[p].skills \ definition.skills :
                sk \notin objects'[p].skills ]_vars

C18_Witness ==
  /\ last.op = "apply_class"
  /\ Returned = PyTrue
  /\ "stealth" \in Range(last.out[3].arg)
  /\ ActorCharacter.skills = { <<"combat", 1>>, <<"survival", 1>> }
  /\ ActorCharacter.char_class = S_Warrior

\* ------------------------------------------------- concurrent sessions
SameNameIgnoringCase(o1, o2) ==
  /\ o1 # o2
  /\ Exists(o1)
  /\ Exists(o2)
  /\ IExact(objects[o1].key, objects[o2].key)

\* The character got its present name from the name step.
NamedAtNameStep(o) == objects[o].ndb_name # None /\ objects[o].ndb_name = objects[o].key

Skipped(raw) == Strip(raw) = EmptyStr

\* C21 as stated: skipping the email step leaves the account's stored email
\* as it was, and the workflow changes an account's email only to a
\* non-empty email that was provided.
C21_SkipLeavesAccountEmail ==
  [][ /\ (last'.op = "node_email" /\ Skipped(last'.input)) =>
           accounts'[last'.acct].email = accounts[last'.acct].email
      /\ \A a \in Accounts :
           accounts'[a].email # accounts[a].email => accounts'[a].email # EmptyStr ]_vars

\* C21, amended: skipping the email step while the account has a character
\* sets the account's stored email to "" (whatever it was); without a
\* character the account is not touched.  Apart from that the workflow
\* changes an account's email only to a non-empty email: the one accepted at
\* the email step, or the threaded one at the terminal step.
C21_SkipBlanksAccountEmail ==
  [][ /\ (last'.op = "node_email" /\ Skipped(last'.input)) =>
           IF HasPuppet(last'.acct)
           THEN accounts'[last'.acct].email = EmptyStr
           ELSE accounts' = accounts
      /\ \A a \in Accounts :
           accounts'[a].email # accounts[a].email =>
             /\ a = last'.acct
             /\ \/ last'.op = "node_email" /\ accounts'[a].email = Strip(last'.input)
                \/ /\ last'.op = "node_confirm"
                   /\ accounts'[a].email = last'.kwargs.email
                   /\ accounts'[a].email \notin { None, EmptyStr } ]_vars

C21_Witness ==
  /\ last.op = "node_email"
  /\ Skipped(last.input)
  /\ menu[Actor].node = "node_race"
  /\ HasPuppet(Actor)
  /\ accounts[Actor].email = EmptyStr
  /\ ActorCharacter.ndb_email = EmptyStr
  /\ ActorCharacter.ndb_class # None

\* ------------------------------------------- only own definitions deleted
KnownKeys(op) == IF op = "apply_race" THEN { "human_race" } ELSE { "warrior_class" }

\* C22: apply_race deletes only attached scripts whose key is a race
\* definition key and apply_class only those whose key is a class
\* definition key: every other script attached before the call is still
\* attached, in the same order, after it.
C22_OnlyOwnDefinitionsDeleted ==
  [][ last'.op \in { "apply_race", "apply_class" } =>
        LET p == Puppet(last'.acct)
            others == SelectSeq(objects[p].scripts, LAMBDA k : k \notin KnownKeys(last'.op))
        IN /\ SelectSeq(objects'[p].scripts, LAMBDA k : k \notin KnownKeys(last'.op)) = others
           /\ \A i \in DOMAIN last'.out[2].arg : last'.out[2].arg[i] \in KnownKeys(last'.op) ]_vars

C22_Witness ==
  /\ last.op = "apply_race"
  /\ Returned = PyTrue
  /\ Deleted = << "human_race" >>
  /\ ActorCharacter.scripts = << "warrior_class", "quest_timer", "human_race" >>

\* ------------------------------------------------ answers at confirm
Affirmed(raw) == Lower(Strip(raw)) \in { S_y, S_yes }

NameAccepted(op, before, after) == op = "node_name" /\ before = "node_name" /\ after = "node_email"

Completes(op, after) == op = "node_confirm" /\ after = "node_apply_character"

\* C24: an accepted name is stored on the character (key and shadow field)
\* trimmed, first letter upper case, the rest lower case; no other step
\* touches the stored name of a character; and when the workflow completes
\* the character's name is that stored name, which the terminal step's
\* capitalization leaves as it is.
C24_FinalNameIsLastAcceptedName ==
  [][ LET a == last'.acct
          p == Puppet(a)
      IN
      /\ (a \in Accounts /\ NameAccepted(last'.op, menu[a].node, menu'[a].node) /\ HasPuppet(a)) =>
            /\ objects'[p].key = Capitalize(Strip(last'.input))
            /\ objects'[p].ndb_name = objects'[p].key
      /\ last'.op # "node_name" =>
            \A o \in ObjIds :
              (objects[o].key # None /\ objects'[o].key # None) =>
                 objects'[o].ndb_name = objects[o].ndb_name
      /\ (a \in Accounts /\ Completes(last'.op, menu'[a].node) /\ HasPuppet(a)) =>
            /\ objects[p].ndb_name # None
            /\ objects'[p].key = objects[p].ndb_name
            /\ objects'[p].key = objects[p].key
            /\ objects'[p].chargen_complete ]_vars

C24_Witness ==
  /\ last.op = "node_confirm"
  /\ menu[Actor].node = "node_apply_character"
  /\ HasPuppet(Actor)
  /\ ActorCharacter.chargen_complete
  /\ ActorCharacter.key = << "B", "o" >>
  /\ ActorCharacter.ndb_name = << "B", "o" >>

\* ------------------------------------------------ sessions side by side
\* C25: a step of one session leaves every other account, every other
\* session's menu and every other session's character (name, race, class,
\* skills, chargen_complete, shadow fields, attached scripts) as they
\* were, and never makes the actor's character one that another account
\* owns, whatever the order in which the sessions' steps are taken.
C25_StepsTouchOnlyOwnSession ==
  [][ \A b \in Accounts \ { last'.acct } :
        /\ accounts'[b] = accounts[b]
        /\ menu'[b] = menu[b]
        /\ HasPuppet(b) =>
              /\ objects'[Puppet(b)] = objects[Puppet(b)]
              /\ accounts'[last'.acct].last_puppet # Puppet(b) ]_vars

C25_Witness ==
  /\ last.acct = "acct2"
  /\ last.op = "node_confirm"
  /\ menu["acct2"].node = "node_apply_character"
  /\ HasPuppet("acct2")
  /\ objects[Puppet("acct2")].chargen_complete
  /\ HasPuppet("acct1")
  /\ Puppet("acct1") # Puppet("acct2")
  /\ menu["acct1"].node = "node_race"
  /\ objects[Puppet("acct1")].ndb_name # None
  /\ ~objects[Puppet("acct1")].chargen_complete
  /\ objects[Puppet("acct1")].scripts = << >>

\* ------------------------------------------- session state at the end
\* C26: once the terminal step has run on the account's character, the
\* character's shadow fields for name, email, race and class hold none of
\* the choices any more.
C26_ShadowsDestroyedOnCompletion ==
  (TerminalStepFinished /\ last.op = "node_confirm" /\ ActorCharacter.chargen_complete) =>
     ShadowsCleared(ActorCharacter)

\* ------------------------------------- the terminal step, no character
CharacterNotFound ==
  << Msg("Error: Character not found. Please contact an administrator.", None) >>

\* C27: when "y" at the confirm step runs the terminal step for an account
\* that has no character, the only effect is the error notice: the
\* account keeps its email, no object gets a race, a class, a script or
\* chargen_complete, and no object is created.
C27_NoCharacterAbortsApply ==
  [][ (last'.op = "node_confirm" /\ Affirmed(last'.input) /\ ~HasPuppet(last'.acct)) =>
        /\ last'.out = CharacterNotFound
        /\ objects' = objects
        /\ accounts' = accounts
        /\ \A o \in ObjIds : objects'[o].chargen_complete => objects[o].chargen_complete ]_vars

C27_Witness ==
  /\ last.op = "node_confirm"
  /\ Affirmed(last.input)
  /\ ~HasPuppet(Actor)
  /\ last.out = CharacterNotFound
  /\ Truthy(last.kwargs.email)
  /\ last.kwargs.race = S_Human
  /\ accounts[Actor].email = EmptyStr
  /\ \A o \in ObjIds : ~objects[o].chargen_complete

\* ------------------------------------------------ progress of a session
\* One session walking the menu, with lines the steps accept and lines they
\* reject; a second account's default character holds a name. The menu
\* takes every line while it is open, so the workflow is started only from
\* outside the menu.
LiveNames == { EmptyStr, S_x, S_bob, S_ANN, S_bo }

LiveEmails == { EmptyStr, S_ab, S_a_at_b_dot_c }

LiveSelections == { EmptyStr, S_1, S_2, S_Elf }

LiveAnswers == { S_y, S_no, S_ye, EmptyStr }

NextLive ==
  \/ \E created \in BOOLEAN : menu["acct1"].node = "closed" /\ start_chargen("acct1", created)
  \/ \E created \in BOOLEAN : start_chargen("acct2", created)
  \/ \E a \in Players, raw \in { EmptyStr, S_x } : WelcomeInput(a, raw)
  \/ \E a \in Players, raw \in LiveNames : \E hk \in EngineKwargs(a) : NameInput(a, raw, hk)
  \/ \E a \in Players, raw \in LiveEmails : \E hk \in EngineKwargs(a) : EmailInput(a, raw, hk)
  \/ \E a \in Players, raw \in LiveSelections : \E hk \in EngineKwargs(a) : RaceInput(a, raw, hk)
  \/ \E a \in Players, raw \in LiveSelections : \E hk \in EngineKwargs(a) : ClassInput(a, raw, hk)
  \/ \E a \in Players, raw \in LiveAnswers : \E hk \in EngineKwargs(a) : ConfirmInput(a, raw, hk)

\* What the handler of the step the menu of a is at returns for a line
HandlerResult(a, raw, hk) ==
  LET node == menu[a].node IN
  IF node = "node_welcome" THEN Result("node_name", EmptyKwargs, objects, accounts, << >>)
  ELSE IF node = "node_name" THEN name_check_input(objects, accounts, a, raw, hk)
  ELSE IF node = "node_email" THEN email_check_input(objects, accounts, a, raw, hk)
  ELSE IF node = "node_race"
  THEN race_check_input(objects, accounts, a, raw, hk, menu[a].email_from_char)
  ELSE IF node = "node_class"
  THEN class_check_input(objects, accounts, a, raw, hk, menu[a].email_from_char,
                         menu[a].race_from_char)
  ELSE confirm_check_input(objects, accounts, a, raw, hk)

LiveLines(node) ==
  IF node = "node_welcome" THEN { EmptyStr, S_x }
  ELSE IF node = "node_name" THEN LiveNames
  ELSE IF node = "node_email" THEN LiveEmails
  ELSE IF node \in { "node_race", "node_class" } THEN LiveSelections
  ELSE LiveAnswers

\* The user supplies a line that the step before confirm accepts
ValidInput(a) ==
  /\ menu[a].node \in ActiveNodes \ { "node_confirm" }
  /\ \E raw \in LiveLines(menu[a].node) :
       \E res \in { HandlerResult(a, raw, menu[a].kwargs) } :
          /\ res.goto # "None"
          /\ Dispatch(a, menu[a].node, raw, menu[a].kwargs, res)

\* The user answers yes at confirm
AnswerYes(a) ==
  /\ menu[a].node = "node_confirm"
  /\ \E raw \in { r \in LiveAnswers : Affirmed(r) } :
       \E res \in { HandlerResult(a, raw, menu[a].kwargs) } :
          Dispatch(a, "node_confirm", raw, menu[a].kwargs, res)

\* Fair input: a valid line is eventually supplied at a step that keeps
\* asking, and yes is eventually answered if confirm keeps coming back.
SpecLive ==
  /\ Init
  /\ [][NextLive]_vars
  /\ \A a \in Players : WF_vars(ValidInput(a)) /\ SF_vars(AnswerYes(a))

\* some line moves the step the menu of a is at to another step
CanAdvance(a) ==
  \E hk \in EngineKwargs(a) : \E raw \in LiveLines(menu[a].node) :
     HandlerResult(a, raw, hk).goto = Successor(menu[a].node)

Completed(a) ==
  /\ menu[a].node = "node_apply_character"
  /\ HasPuppet(a)
  /\ objects[Puppet(a)].chargen_complete

\* C28: at every step of an open menu some line moves the workflow on, and
\* under fair input an open menu eventually reaches the apply step, which
\* closes it with chargen_complete = true.
C28_NeverStuckAndTerminates ==
  /\ [](\A a \in Players : menu[a].node \in ActiveNodes => CanAdvance(a))
  /\ \A a \in Players : (menu[a].node \in ActiveNodes) ~> Completed(a)

C28_Witness ==
  /\ Completed("acct1")
  /\ last.op = "node_confirm"
  /\ Affirmed(last.input)
  /\ HasMsg(last.out, "Character Creation Complete!")
  /\ HasPuppet("acct2")
  /\ objects[Puppet("acct1")].key = << "B", "o" >>

\* --------------------------------------------- chargen_complete over time
\* Everything the subsystem does to a character, in any order: the menu of
\* one session, the registry operations and the terminal step called
\* directly, and the commands.
StableRegistryNames == { S_Human, S_warrior }

StableCreateArgs == { EmptyStr, S_cara }

StableKwargs == { [ email |-> None, race |-> S_Elf, char_class |-> S_Mage ] }

NextStable ==
  \/ \E a \in Players, created \in BOOLEAN : start_chargen(a, created)
  \/ \E a \in Players : WelcomeInput(a, EmptyStr)
  \/ \E a \in Players : NameInput(a, S_bo, menu[a].kwargs)
  \/ \E a \in Players : EmailInput(a, EmptyStr, menu[a].kwargs)
  \/ \E a \in Players : RaceInput(a, S_1, menu[a].kwargs)
  \/ \E a \in Players : ClassInput(a, S_1, menu[a].kwargs)
  \/ \E a \in Players, raw \in { S_y, S_no } : ConfirmInput(a, raw, menu[a].kwargs)
  \/ \E a \in Players, name \in StableRegistryNames : ApplyRace(a, name)
  \/ \E a \in Players, name \in StableRegistryNames : ApplyClass(a, name)
  \/ \E a \in Players, kw \in StableKwargs : ForceApply(a, kw)
  \/ \E a \in Players, args \in StableCreateArgs, outcome \in CreateOutcomes :
        CmdCharCreate(a, args, outcome)
  \/ \E a \in Players : CmdScore(a)
  \/ \E a \in Players : CmdCharacterInfo(a)
  \/ \E a \in Players : DeleteCharacter(a)

SpecStable == Init /\ [][NextStable]_vars

\* C29: an object that comes into existence is not complete, and an
\* object that is complete stays complete in every step of the workflow,
\* the registries and the commands for as long as it exists.
C29_ChargenCompleteStable ==
  [][ \A o \in ObjIds :
        /\ (objects[o].key = None /\ objects'[o].key # None) => ~objects'[o].chargen_complete
        /\ (objects[o].chargen_complete /\ objects'[o].key # None) =>
              objects'[o].chargen_complete ]_vars

C29_Witness ==
  /\ last.op = "apply_race"
  /\ HasPuppet(Actor)
  /\ ActorCharacter.chargen_complete
  /\ menu[Actor].node = "node_apply_character"
  /\ ActorCharacter.ndb_name # None

====
